---- MODULE Spec2Model ----
(***************************************************************************)
(* Vellum data sources: the datasources loader (init, loadDataSources,     *)
(* getValue and the builders) and the data-node tree with the hashtag map  *)
(* compiled from it, as implemented in src/src/commtrack.js lines 294-605. *)
(*                                                                         *)
(* The callback-queue loader of src/unnamed/part_000 (init, reset,         *)
(* getDataSources) and the escaped hashtag transform exercised by          *)
(* src/tests/escapedHashtags.js are modelled as well.                      *)
(*                                                                         *)
(* Specifications:                                                         *)
(*   TreeSpec       builders.dataNodes / builders.hashtags on one          *)
(*                  descriptor list, with getNodes() called on the lazy    *)
(*                  nodes in any order                                     *)
(*   Spec           the loader: endpoint, cache, events and the getters    *)
(*   QueueSpec      the callback-queue loader                              *)
(*   TransformSpec  escapedHashtags.transform on bounded strings           *)
(***************************************************************************)
EXTENDS Integers, Sequences, FiniteSets, TLC

VARIABLES
    \* ---- TreeSpec: one run of builders.dataNodes over a descriptor list
    tSources,      \* the descriptor list handed to the builder
    tInvalid,      \* that.invalidCaseProperties
    tTree,         \* the node objects created so far, `seen`, and the root's nodes
    tHashtags,     \* the value of builders.hashtags, once compiled
    \* ---- Spec: the datasources loader
    endpoint,      \* that.endpoint: "none", "url" or "fn"
    cache,         \* that.cache
    loading,       \* that.loading
    retryTimeout,  \* that.retryTimeout
    ajax,          \* number of $.ajax requests in flight
    timers,        \* number of pending setTimeout retries
    fnPending,     \* endpoint(finish) calls that have not called back yet
    listeners,     \* the "change" listeners bound through onChangeReady
    lastCall,      \* the last getter call and what it returned
    hist,          \* history: events fired and values observed
    \* ---- QueueSpec: the callback-queue loader
    dataSourcesEndpoint,  \* "none", "url" or "fn"
    dataCache,     \* null (<< >>) or the loaded list
    dataCallbacks, \* the queued success callbacks
    errorCallbacks,\* the queued error callbacks
    requests,      \* the requests and endpoint calls that have not finished
    callers,       \* history: the getDataSources calls made so far
    qLog,          \* history: the callback invocations, in order
    qHist,         \* history: resets, requests issued, failed requests
    \* ---- TransformSpec: one call of escapedHashtags.transform
    xInput,        \* the input string, as a sequence of symbols
    xFn,           \* the map function
    xOutput,       \* << >> before the call, then the string returned
    xAgain,        \* << >>, then the map function and the result of
                   \* transform applied to the string returned
    \* ---- ParserSpec: escapedHashtags.parser(hashtagInfo).parse(input)
    pInput,        \* the expression, as a sequence of symbols
    pCall,         \* << >>, then the method called on the parsed expression
                   \* and the string it returned
    pAgain,        \* << >>, then the result of parsing the string returned
                   \* and calling the same method on it
    \* ---- IntentSpec: the intents plugin
    unmappedIntentTags,  \* this.data.intents.unmappedIntentTags
    iTree,         \* the mugs of form.tree
    iHist,         \* history: tags parsed and claimed, elements written
    \* ---- UndoSpec: an UndoManager
    undoStack,     \* this.undoStack
    uAlert,        \* the undo alert is on the page
    uHist          \* history: entries passed, mugs re-inserted, events fired

treeVars == <<tSources, tInvalid, tTree, tHashtags>>
loaderVars == <<endpoint, cache, loading, retryTimeout, ajax, timers, fnPending,
                listeners, lastCall, hist>>
queueVars == <<dataSourcesEndpoint, dataCache, dataCallbacks, errorCallbacks,
               requests, callers, qLog, qHist>>
transformVars == <<xInput, xFn, xOutput, xAgain>>
parserVars == <<pInput, pCall, pAgain>>
\* the variables of the specifications that follow TransformSpec
intentVars == <<unmappedIntentTags, iTree, iHist>>
undoVars == <<undoStack, uAlert, uHist>>
restVars == <<parserVars, intentVars, undoVars>>
vars == <<tSources, tInvalid, tTree, tHashtags, endpoint, cache, loading,
          retryTimeout, ajax, timers, fnPending, listeners, lastCall, hist,
          dataSourcesEndpoint, dataCache, dataCallbacks, errorCallbacks,
          requests, callers, qLog, qHist, xInput, xFn, xOutput, xAgain,
          pInput, pCall, pAgain, unmappedIntentTags, iTree, iHist,
          undoStack, uAlert, uHist>>

\* JavaScript null / undefined where a string is expected
Null == "<null>"
\* JavaScript undefined where an object is expected
Undefined == [undefined |-> TRUE]

Has(obj, key) == key \in DOMAIN obj
\* a string in a boolean context
Truthy(s) == s # Null /\ s # ""

\* var v = ...; the rest of the function body F reads v
Let(v, F(_)) == F(v)

\* the callback-queue loader and the transform when they are not in use
QueueIdle ==
    /\ dataSourcesEndpoint = "none" /\ dataCache = << >>
    /\ dataCallbacks = << >> /\ errorCallbacks = << >> /\ requests = << >>
    /\ callers = << >> /\ qLog = << >>
    /\ qHist = [resets |-> 0, issued |-> 0, failures |-> << >>]
TransformIdle ==
    /\ xInput = << >> /\ xFn = "identity" /\ xOutput = << >> /\ xAgain = << >>
ParserIdle == pInput = << >> /\ pCall = << >> /\ pAgain = << >>
IntentIdle ==
    /\ unmappedIntentTags = << >> /\ iTree = << >>
    /\ iHist = [loaded |-> FALSE, parsed |-> {}, claimed |-> {}, wrote |-> FALSE,
                written |-> << >>]
UndoIdle ==
    /\ undoStack = << >> /\ uAlert = FALSE
    /\ uHist = [passed |-> << >>, undone |-> << >>, inserted |-> << >>,
                fired |-> 0, last |-> "none"]
RestIdle == ParserIdle /\ IntentIdle /\ UndoIdle

EmptyMap == [h \in {} |-> ""]
Put(map, key, value) == (key :> value) @@ map

(***************************************************************************)
(* Descriptor lists.  A structure is a sequence of [id, item] entries in   *)
(* the key order of the JSON object; `related` is a sequence of            *)
(* [relation, subset] entries in key order.                                *)
(***************************************************************************)
\* a leaf element: {}
Leaf == << >>
Ref(source, key) == [reference |-> [source |-> source, key |-> key]]
SubsetRef(source, subset, key) ==
    [reference |-> [source |-> source, subset |-> subset, key |-> key]]
Container(name, structure) == [name |-> name, structure |-> structure]
Entry(id, item) == [id |-> id, item |-> item]

Session(structure) ==
    [id |-> "commcaresession", uri |-> "jr://instance/session",
     path |-> "/session", name |-> "Session", structure |-> structure]

\* A references B and B references A
SourceA == [id |-> "A", uri |-> "jr://a", path |-> "/a", name |-> "Source A",
            structure |-> << Entry("pa", Leaf), Entry("b", Ref("B", "@id")) >>]
SourceB == [id |-> "B", uri |-> "jr://b", path |-> "/b", name |-> "",
            structure |-> << Entry("a", Ref("A", "@id")), Entry("pb", Leaf) >>]
CyclicList == << Session(<< Entry("a", Ref("A", "@id")) >>), SourceA, SourceB >>

\* a case database whose subsets are related to each other and to themselves
CaseDb ==
    [id |-> "casedb", uri |-> "jr://instance/casedb", path |-> "/cases/case",
     name |-> "Cases", structure |-> << Entry("name", Leaf) >>,
     subsets |-> <<
        [id |-> "case", key |-> "@case_type", name |-> "child",
         structure |-> << Entry("color", Leaf) >>,
         related |-> << [relation |-> "parent", subset |-> "parent"] >>],
        [id |-> "parent", key |-> "@case_type", name |-> "mother",
         structure |-> << Entry("age", Leaf), Entry("secret", Leaf) >>,
         related |-> << [relation |-> "parent", subset |-> "parent"] >>],
        [id |-> "other", key |-> "@owner", name |-> "other",
         structure |-> << Entry("zip", Leaf) >>] >>]
SubsetList ==
    << Session(<< Entry("case_id", SubsetRef("casedb", "case", "@case_id")) >>),
       CaseDb >>

\* one source referenced from two sibling branches
SourceC == [id |-> "C", uri |-> "jr://c", path |-> "/c", name |-> "Source C",
            structure |-> << Entry("pc", Leaf) >>]
SiblingList ==
    << Session(<< Entry("x", Container("X", << Entry("r", Ref("C", "@id")) >>)),
                  Entry("y", Container("", << Entry("r", Ref("C", "@id")) >>)) >>),
       SourceC >>

\* a reference to a source id that is not among the descriptors
DanglingList ==
    << Session(<< Entry("gone", Ref("missing", "@id")),
                  Entry("c", Ref("C", "@id")) >>),
       SourceC >>

\* a source with two structure containers that hold different properties
SourceD == [id |-> "D", uri |-> "jr://d", path |-> "/d", name |-> "Source D",
            structure |-> << Entry("g", Container("G", << Entry("p", Leaf) >>)),
                             Entry("h", Container("H", << Entry("q", Leaf) >>)) >>]
NestedList == << Session(<< Entry("d", Ref("D", "@id")) >>), SourceD >>

\* a list without the commcaresession root
RootlessList == << SourceC >>

\* what finish() stores when the list is empty
NotFound == [id |-> "", uri |-> "", path |-> "", name |-> "Not Found",
             structure |-> << >>]

TreeLists ==
    {CyclicList, SubsetList, SiblingList, DanglingList, RootlessList, NestedList}
\* invalidCaseProperties: nothing, a structure id, a relation name
InvalidSets == {{}, {"secret"}, {"parent"}}

\* getNodes() is called from outside the compile walk on nodes this deep at most
MaxDepth == 3
\* getNodes() is called this often at most on nodes that have their children
MaxRepeats == 1

(***************************************************************************)
(* builders.dataNodes: node, getTree, getNodes                             *)
(***************************************************************************)
IsUndefined(obj) == Has(obj, "undefined")
\* what node() returns for an id in invalidCaseProperties
NullNode == [null |-> TRUE]
IsNull(n) == Has(n, "null")

\* source.id in a string context: a missing id reads "undefined"
SourceId(source) == IF Has(source, "id") THEN source.id ELSE "undefined"

\* _.indexBy(sources, "id"): a later descriptor replaces an earlier one
IndexBy(list) ==
    LET last(id) == CHOOSE k \in DOMAIN list :
                        /\ list[k].id = id
                        /\ \A j \in DOMAIN list : list[j].id = id => j <= k
    IN  [id \in {list[k].id : k \in DOMAIN list} |-> list[last(id)]]

\* _.findWhere(source.subsets, {id: ref.subset, key: "@case_type"})
FindWhere(subsets, id) ==
    LET hits == {k \in DOMAIN subsets :
                    subsets[k].id = id /\ subsets[k].key = "@case_type"}
    IN  IF hits = {} THEN Undefined
        ELSE subsets[CHOOSE k \in hits : \A j \in hits : k <= j]

\* _.omit(source, "structure"), of which the builder reads the id only
InfoOf(source) == [id |-> source.id]

\* JavaScript's order of the strings the descriptor lists use (code units)
Collation ==
    << "", "B", "Cases", "Not Found", "Session", "Source A", "Source C", "X",
       "a", "age", "b", "c", "case_id", "child", "color", "gone", "mother",
       "name", "other", "pa", "parent", "pb", "pc", "r", "secret", "x", "y",
       "zip" >>
StrLess(a, b) ==
    LET rank(t) == CHOOSE i \in DOMAIN Collation : Collation[i] = t
    IN  rank(a) < rank(b)

\* _.sortBy(nodes, key): a stable sort on the criterion nodes[i][key], an
\* undefined criterion (Null) sorting after every defined one.
RECURSIVE sortBy(_, _)
sortBy(nodes, key) ==
    IF nodes = << >> THEN << >>
    ELSE
    LET criterion(n) == IF IsNull(n) \/ ~Has(n, key) THEN Null ELSE n[key]
        before(a, b) == a # b /\ a # Null /\ (b = Null \/ StrLess(a, b))
        front == sortBy(SubSeq(nodes, 1, Len(nodes) - 1), key)
        x == nodes[Len(nodes)]
        \* x goes behind every element that does not sort after it
        keep == {i \in DOMAIN front : before(criterion(x), criterion(front[i]))}
        at == IF keep = {} THEN Len(front) + 1
              ELSE CHOOSE i \in keep : \A j \in keep : i <= j
    IN  SubSeq(front, 1, at - 1) \o <<x>> \o SubSeq(front, at, Len(front))

\* sources[ref.source || info.id]
resolveFallback(sources, ref, info) ==
    LET sid == IF Has(ref, "source") /\ Truthy(ref.source) /\ ref.source \in DOMAIN sources
               THEN ref.source ELSE info.id
    IN  IF sid \in DOMAIN sources THEN sources[sid] ELSE Undefined
resolve(sources, ref, info) ==
    LET sid == IF Has(ref, "source") /\ Truthy(ref.source)
               THEN ref.source ELSE info.id
    IN  IF sid \in DOMAIN sources THEN sources[sid] ELSE Undefined

\* if (seen.hasOwnProperty(id)) recursive = true; else seen[id] = true
markSeenFirst(seen, id) ==
    [recursive |-> id \in (seen \cup {id}), seen |-> seen \cup {id}]
markSeen(seen, id) ==
    [recursive |-> id \in seen, seen |-> seen \cup {id}]

\* the part of getTree that runs when the reference resolved to `target`
refTree(plain, seen, ref, path, target) ==
    IF IsUndefined(target) THEN [plain EXCEPT !.source = Undefined]
    ELSE
    Let(IF Has(target, "subsets") /\ Has(ref, "subset") /\ Truthy(ref.subset)
        THEN FindWhere(target.subsets, ref.subset)
        ELSE Undefined,
        LAMBDA sub :
    Let(IF IsUndefined(sub) THEN target ELSE sub,
        LAMBDA source :
    Let(markSeen(seen, source.id),
        LAMBDA mark :
            [name |-> IF Has(source, "name") /\ Truthy(source.name)
                      THEN source.name
                      ELSE IF Truthy(source.id) THEN source.id ELSE plain.name,
             recursive |-> mark.recursive,
             source |-> source,
             path |-> "instance('" \o target.id \o "')" \o target.path
                      \o "[" \o ref.key \o " = " \o path \o "]",
             info |-> InfoOf(target),
             seen |-> mark.seen])))

getTree(sources, seen, item, id, path, info) ==
    Let([name |-> IF Has(item, "name") /\ Truthy(item.name) THEN item.name ELSE id,
         recursive |-> FALSE, source |-> item, path |-> path,
         info |-> info, seen |-> seen],
        LAMBDA plain :
            IF Has(item, "structure") \/ ~Has(item, "reference") THEN plain
            ELSE refTree(plain, seen, item.reference, path,
                         resolve(sources, item.reference, info)))

\* node(source, parentPath, info, index)(item, id); ctx holds the indexed
\* sources and invalidCaseProperties.  Returns the node and the new `seen`.
node(ctx, seen, source, parentPath, info, index, item, id) ==
    IF id \in ctx.invalid THEN [node |-> NullNode, seen |-> seen]
    ELSE
    Let(IF Truthy(parentPath) THEN parentPath \o "/" \o id ELSE id,
        LAMBDA path :
    Let(getTree(ctx.sources, seen, item, id, path, info),
        LAMBDA tree :
    Let(IF SourceId(source) # "commcaresession"
        THEN "#case/" \o (IF SourceId(source) # "case"
                          THEN SourceId(source) \o "/" ELSE "")
        ELSE Null,
        LAMBDA hashtagPrefix :
            [node |-> [name |-> tree.name,
                       hashtag |-> IF hashtagPrefix # Null
                                   THEN hashtagPrefix \o id ELSE Null,
                       hashtagPrefix |-> hashtagPrefix,
                       parentPath |-> parentPath,
                       xpath |-> path,
                       index |-> index,
                       sourceInfo |-> info,
                       recursive |-> tree.recursive,
                       \* the closure of tree.getNodes
                       source |-> tree.source, path |-> tree.path,
                       info |-> tree.info,
                       expanded |-> FALSE, children |-> << >>],
             seen |-> tree.seen])))

\* _.map(entries, node(source, path, info, index)), threading `seen`
RECURSIVE mapNode(_, _, _, _, _, _, _, _)
mapNode(ctx, seen, source, path, info, index, entries, k) ==
    IF k > Len(entries) THEN [nodes |-> << >>, seen |-> seen]
    ELSE
    Let(node(ctx, seen, source, path, info, index, entries[k].item, entries[k].id),
        LAMBDA head :
    Let(mapNode(ctx, head.seen, source, path, info, index, entries, k + 1),
        LAMBDA rest :
            [nodes |-> <<head.node>> \o rest.nodes, seen |-> rest.seen]))

\* _.compact
compact(nodes) == SelectSeq(nodes, LAMBDA n : ~IsNull(n))

\* the entries _.map(source.related, ...) hands to node(): the relation is the
\* id, the item a reference to the related subset by "@case_id"
relatedItems(related) ==
    [k \in DOMAIN related |->
        Entry(related[k].relation,
              [reference |-> [subset |-> related[k].subset, key |-> "@case_id"]])]

getNodes(ctx, seen, source, path, info) ==
    Let(mapNode(ctx, seen, source, path, info, FALSE,
                IF ~IsUndefined(source) /\ Has(source, "structure")
                THEN source.structure ELSE << >>, 1),
        LAMBDA own :
    Let(sortBy(compact(own.nodes), "text"),
        LAMBDA nodes :
            IF ~IsUndefined(source) /\ Has(source, "related")
            THEN Let(mapNode(ctx, own.seen, source, path \o "/index", info, TRUE,
                             relatedItems(source.related), 1),
                     LAMBDA rel :
                        [nodes |-> sortBy(rel.nodes, "text") \o nodes,
                         seen |-> rel.seen])
            ELSE [nodes |-> nodes, seen |-> own.seen]))

(***************************************************************************)
(* The node objects live in an arena keyed by their position in the tree:  *)
(* << >> is the root node, Append(p, k) the k-th element of p's getNodes().*)
(***************************************************************************)
\* the arena with the node at p expanded to the nodes getNodes() returned
withChildren(tree, p, got) ==
    Let([k \in 1..Len(got.nodes) |-> Append(p, k)],
        LAMBDA kids :
            [tree EXCEPT
                !.arena = [q \in DOMAIN tree.arena \cup {kids[k] : k \in DOMAIN kids} |->
                              IF q = p
                              THEN [tree.arena[p] EXCEPT !.expanded = TRUE,
                                                         !.children = kids]
                              ELSE IF q \in DOMAIN tree.arena THEN tree.arena[q]
                              ELSE got.nodes[q[Len(q)]]],
                !.seen = got.seen])

\* tree.getNodes() of the node at p, computing the children on every call
treeGetNodesAnew(ctx, tree, p) ==
    withChildren([tree EXCEPT !.arena =
                      [q \in {r \in DOMAIN tree.arena :
                                  ~(Len(r) > Len(p) /\ SubSeq(r, 1, Len(p)) = p)} |->
                          tree.arena[q]]],
                 p,
                 getNodes(ctx, tree.seen, tree.arena[p].source,
                          tree.arena[p].path, tree.arena[p].info))
\* tree.getNodes() of the node at p: computes the children on the first call
treeGetNodes(ctx, tree, p) ==
    IF tree.arena[p].expanded THEN tree
    ELSE withChildren(tree, p,
                      getNodes(ctx, tree.seen, tree.arena[p].source,
                               tree.arena[p].path, tree.arena[p].info))

Context(list, invalid) == [sources |-> IndexBy(list), invalid |-> invalid]

\* asked: the nodes a holder has called getNodes() on; again: how many of
\* these calls were made on a node that had its children already
NoTree == [built |-> FALSE, defined |-> FALSE, arena |-> << >>, seen |-> {},
           nodes |-> << >>, asked |-> {}, again |-> 0]

\* the root node, node(source, null, info)(source, path), and its .getNodes()
rootNodes(ctx, source) ==
    Let(node(ctx, {}, source, Null, InfoOf(source), FALSE, source,
             "instance('" \o source.id \o "')" \o source.path),
        LAMBDA root :
    Let(treeGetNodes(ctx, [NoTree EXCEPT !.arena = (<< >> :> root.node),
                                         !.seen = root.seen], << >>),
        LAMBDA tree :
            [tree EXCEPT !.built = TRUE, !.defined = TRUE,
                         !.nodes = tree.arena[<< >>].children]))

\* builders.dataNodes, given the value of getValue(that, "sources")
dataNodes(list, invalid) ==
    IF "commcaresession" \notin DOMAIN IndexBy(list)
    THEN [NoTree EXCEPT !.built = TRUE]
    ELSE rootNodes(Context(list, invalid), IndexBy(list)["commcaresession"])

(***************************************************************************)
(* builders.hashtags: walk                                                 *)
(***************************************************************************)
NoHashtags == [built |-> FALSE, defined |-> FALSE, map |-> EmptyMap,
               transforms |-> EmptyMap, threw |-> FALSE, calls |-> << >>]

\* if (node.hashtag && !node.index)
recordsAll(n) == Truthy(n.hashtag)
records(n) == Truthy(n.hashtag) /\ ~n.index

\* hashtags.map[node.hashtag] = ...; hashtags.transforms[node.hashtagPrefix] = ...
\* (the transform function is kept as the parentPath it closes over)
recordParentPath(st, n) ==
    IF records(n)
    THEN [st EXCEPT !.map = Put(@, n.hashtag, n.parentPath),
                    !.transforms = Put(@, n.hashtagPrefix, n.parentPath)]
    ELSE st
record(st, n) ==
    IF records(n)
    THEN [st EXCEPT !.map = Put(@, n.hashtag, n.xpath),
                    !.transforms = Put(@, n.hashtagPrefix, n.parentPath)]
    ELSE st

\* walk(nodes, hashtags) from the k-th node on.  st carries the tree (whose
\* nodes memoize their children), the hashtags under construction, whether
\* the walk threw, and the nodes whose getNodes() the walk called, in order.
RECURSIVE walk(_, _, _, _)
walk(ctx, st, nodes, k) ==
    IF k > Len(nodes) \/ st.threw THEN st
    ELSE IF IsNull(st.tree.arena[nodes[k]]) THEN [st EXCEPT !.threw = TRUE]
    ELSE
    Let(record(st, st.tree.arena[nodes[k]]),
        LAMBDA st1 :
            IF st1.tree.arena[nodes[k]].recursive
            THEN walk(ctx, st1, nodes, k + 1)
            ELSE
            Let(treeGetNodes(ctx, st1.tree, nodes[k]),
                LAMBDA t :
                    walk(ctx,
                         walk(ctx,
                              [st1 EXCEPT !.tree = t, !.calls = Append(@, nodes[k])],
                              t.arena[nodes[k]].children, 1),
                         nodes, k + 1)))

\* builders.hashtags, given the value of getValue(that, "dataNodes")
hashtags(ctx, tree) ==
    IF ~tree.defined THEN [tree |-> tree, map |-> EmptyMap, transforms |-> EmptyMap,
                           threw |-> FALSE, calls |-> << >>, defined |-> FALSE]
    ELSE walk(ctx, [tree |-> tree, map |-> EmptyMap, transforms |-> EmptyMap,
                    threw |-> FALSE, calls |-> << >>, defined |-> TRUE],
              tree.nodes, 1)

\* a transform function of hashtags.transforms applied to a property
ApplyTransform(parentPath, prop) == parentPath \o "/" \o prop

(***************************************************************************)
(* The datasources loader: init, loadDataSources, getValue, the builders   *)
(***************************************************************************)
\* that.retryTimeout after reset()
InitialRetryTimeout == 1000
\* onError schedules a retry while that.retryTimeout is below this
RetryLimit == 8001

\* reset() is called this often at most
MaxResets == 1
\* at most this many endpoint(finish) calls are waiting to call back
MaxPending == 1
\* onChangeReady is called this often at most
MaxListeners == 1

\* the lists an endpoint delivers
LoaderLists == {<< >>, RootlessList, SubsetList, CyclicList}

\* `that` and the pending asynchronous work, as a handler sees and changes
\* them; fired: the events fired so far in this handler; gen: how often the
\* handler has replaced that.cache; issued: the $.ajax requests it has
\* issued; called: the calls of a function endpoint it has made; delays: the
\* delays of the retries it has scheduled
That ==
    [cache |-> cache, loading |-> loading, retryTimeout |-> retryTimeout,
     ajax |-> ajax, timers |-> timers, fnPending |-> fnPending,
     fired |-> << >>, gen |-> 0, issued |-> 0, called |-> 0, delays |-> << >>]

\* what a function endpoint does when it is called: it calls back at once
\* with env.data (env.sync), or later
Envs == [sync : BOOLEAN, data : LoaderLists]

\* loadDataSources/finish, updating the cache in place
finishInPlace(t, data) ==
    [t EXCEPT !.cache = Put(@, "sources", IF Len(data) > 0 THEN data ELSE <<NotFound>>),
              !.loading = FALSE,
              !.fired = Append(@, "change")]
\* loadDataSources/finish
finish(t, data) ==
    [t EXCEPT !.cache = ("sources" :> IF Len(data) > 0 THEN data ELSE <<NotFound>>),
              !.gen = @ + 1,
              !.loading = FALSE,
              !.fired = Append(@, "change")]

\* loadDataSources/onError, retrying after the same delay every time
onErrorFixedDelay(t) ==
    [t EXCEPT !.fired = Append(@, "error"),
              !.timers = @ + 1,
              !.delays = Append(@, t.retryTimeout)]
\* loadDataSources/onError
onError(t) ==
    IF t.retryTimeout < RetryLimit
    THEN [t EXCEPT !.fired = Append(@, "error"),
                   !.timers = @ + 1,
                   !.delays = Append(@, t.retryTimeout),
                   !.retryTimeout = @ * 2]
    ELSE [t EXCEPT !.fired = Append(@, "error")]

loadDataSources(t, env) ==
    IF endpoint = "url"
    THEN [t EXCEPT !.loading = TRUE, !.ajax = @ + 1, !.issued = @ + 1]
    ELSE IF endpoint = "fn"
    THEN IF env.sync THEN finish([t EXCEPT !.called = @ + 1], env.data)
         ELSE [t EXCEPT !.called = @ + 1, !.fnPending = @ + 1]
    ELSE finish(t, << >>)

NotBuilt(t) == [t |-> t, defined |-> FALSE, value |-> << >>]
Built(t, value) == [t |-> t, defined |-> TRUE, value |-> <<value>>]

\* getValue(that, name), `built` being what builders[name](that) gives.  The
\* value is stored in the cache object read on entry, which is no longer
\* that.cache if the builder replaced it.
getValue(t, name, built) ==
    IF name \in DOMAIN t.cache THEN Built(t, t.cache[name])
    ELSE IF built.defined
    THEN IF built.t.gen # t.gen THEN built
         ELSE [built EXCEPT !.t.cache = Put(@, name, built.value[1])]
    ELSE NotBuilt(built.t)

\* builders.sources
sourcesBuilder(t, env) ==
    Let(IF ~t.loading THEN loadDataSources(t, env) ELSE t,
        LAMBDA t1 :
            IF "sources" \in DOMAIN t1.cache
            THEN Built(t1, t1.cache["sources"]) ELSE NotBuilt(t1))

\* builders.dataNodes with `nodes` undefined counted as an empty list
dataNodesBuilderEmpty(t, env) ==
    Let(getValue(t, "sources", sourcesBuilder(t, env)),
        LAMBDA s :
            IF s.defined
            THEN Built(s.t, [tree |-> [dataNodes(s.value[1], tInvalid)
                                          EXCEPT !.defined = TRUE],
                             closure |-> Context(s.value[1], tInvalid)])
            ELSE NotBuilt(s.t))
\* builders.dataNodes: the tree and the `sources` its closures hold
dataNodesBuilder(t, env) ==
    Let(getValue(t, "sources", sourcesBuilder(t, env)),
        LAMBDA s :
            IF ~s.defined THEN NotBuilt(s.t)
            ELSE
            Let(dataNodes(s.value[1], tInvalid),
                LAMBDA tree :
                    IF tree.defined
                    THEN Built(s.t, [tree |-> tree,
                                     closure |-> Context(s.value[1], tInvalid)])
                    ELSE NotBuilt(s.t)))

\* builders.hashtags; the walk expands the node objects of the dataNodes value
hashtagsBuilder(t, env) ==
    Let(getValue(t, "dataNodes", dataNodesBuilder(t, env)),
        LAMBDA n :
            IF ~n.defined THEN NotBuilt(n.t)
            ELSE
            Let(hashtags(n.value[1].closure, n.value[1].tree),
                LAMBDA h :
                    Built(IF "dataNodes" \in DOMAIN n.t.cache
                          THEN [n.t EXCEPT !.cache["dataNodes"].tree = h.tree]
                          ELSE n.t,
                          [map |-> h.map, transforms |-> h.transforms,
                           threw |-> h.threw])))

\* builders.hashtagMap
hashtagMapBuilder(t, env) ==
    Let(getValue(t, "hashtags", hashtagsBuilder(t, env)),
        LAMBDA h : IF h.defined THEN Built(h.t, h.value[1].map) ELSE NotBuilt(h.t))

\* builders.hashtagTransforms
hashtagTransformsBuilder(t, env) ==
    Let(getValue(t, "hashtags", hashtagsBuilder(t, env)),
        LAMBDA h : IF h.defined THEN Built(h.t, h.value[1].transforms)
                   ELSE NotBuilt(h.t))

\* util.eventuality: fire(type) calls every listener bound to the type
fire(ls, events) ==
    [i \in DOMAIN ls |->
        IF ls[i].bound
        THEN [ls[i] EXCEPT !.invoked =
                  @ + Cardinality({k \in DOMAIN events : events[k] = "change"})]
        ELSE ls[i]]

Count(events, type) == Cardinality({k \in DOMAIN events : events[k] = type})

\* the end of a handler: `that` is as the handler left it, and the events it
\* fired have reached the listeners that were bound
Commit(t, ls) ==
    /\ cache' = t.cache
    /\ loading' = t.loading
    /\ retryTimeout' = t.retryTimeout
    /\ ajax' = t.ajax
    /\ timers' = t.timers
    /\ fnPending' = t.fnPending
    /\ listeners' = fire(ls, t.fired)
    /\ UNCHANGED <<endpoint, treeVars, queueVars, transformVars, restVars>>

\* history: the change events since init or the last reset, the reset()
\* calls, the last hashtag map a getter returned, for every onChangeReady
\* registration whether the sources were loaded when it returned and the
\* change events fired from then until its unbind function was called and
\* after that, whether the last handler fired an error event, and since
\* init or the last reset the requests issued, the error events fired and
\* the delays of the retries scheduled, and whether a call of the page has
\* ever issued a request or called the endpoint while a request, a retry or
\* an endpoint call was outstanding
Noted(t, op) ==
    [hist EXCEPT !.changes = @ + Count(t.fired, "change"),
                 !.requests = @ + t.issued,
                 !.errors = @ + Count(t.fired, "error"),
                 !.delays = @ \o t.delays,
                 !.overlap = @ \/ (/\ op # "retry"
                                   /\ ajax + timers + fnPending > 0
                                   /\ t.issued + t.called > 0),
                 !.regs = [i \in DOMAIN @ |->
                              IF listeners[i].bound
                              THEN [@[i] EXCEPT !.changes = @ + Count(t.fired, "change")]
                              ELSE [@[i] EXCEPT !.missed = @ + Count(t.fired, "change")]],
                 !.last = IF Count(t.fired, "error") > 0 THEN "error" ELSE "other"]

NoCall == [op |-> "none", isDefault |-> FALSE, value |-> << >>]
Call(op, got) == [op |-> op, isDefault |-> ~got.defined, value |-> got.value]

\* init(endpoint, invalidCaseProperties)
LoaderInit ==
    /\ endpoint \in {"none", "url", "fn"}
    /\ tInvalid = {"secret"}
    /\ cache = << >>
    /\ retryTimeout = InitialRetryTimeout
    /\ loading = (endpoint = "url")
    /\ ajax = IF endpoint = "url" THEN 1 ELSE 0
    /\ timers = 0
    /\ fnPending = 0
    /\ listeners = << >>
    /\ lastCall = NoCall
    /\ hist = [changes |-> 0, resets |-> 0, bundle |-> << >>, regs |-> << >>,
               last |-> "other", requests |-> IF endpoint = "url" THEN 1 ELSE 0,
               errors |-> 0, delays |-> << >>, overlap |-> FALSE]
    /\ tSources = << >> /\ tTree = NoTree /\ tHashtags = NoHashtags
    /\ QueueIdle /\ TransformIdle /\ RestIdle

\* the handler would call a function endpoint
CallsEndpoint == endpoint = "fn" /\ ~loading /\ "sources" \notin DOMAIN cache
\* a handler may call the endpoint only while it can still be kept waiting;
\* what the endpoint would do is left open only where it is called
CanCall(env) ==
    IF CallsEndpoint THEN env.sync \/ fnPending < MaxPending
    ELSE env = [sync |-> FALSE, data |-> << >>]

\* that.reset()
Reset ==
    /\ hist.resets < MaxResets
    /\ Commit([That EXCEPT !.retryTimeout = InitialRetryTimeout, !.cache = << >>],
              listeners)
    /\ hist' = [hist EXCEPT !.resets = @ + 1, !.changes = 0, !.last = "other",
                            !.requests = 0, !.errors = 0, !.delays = << >>]
    /\ lastCall' = NoCall

\* a getter: getValue(that, name, defaultValue)
Getter(op, got) ==
    /\ Commit(got.t, listeners)
    /\ lastCall' = Call(op, got)
    /\ hist' = IF op = "getHashtagMap" /\ got.defined
               THEN [Noted(got.t, op) EXCEPT !.bundle = got.value]
               ELSE Noted(got.t, op)

\* that.isReady()
IsReady(env) ==
    /\ CanCall(env)
    /\ Getter("isReady", getValue(That, "sources", sourcesBuilder(That, env)))
\* that.getDataSources(defaultValue)
GetDataSources(env) ==
    /\ CanCall(env)
    /\ Getter("getDataSources", getValue(That, "sources", sourcesBuilder(That, env)))
\* that.getDataNodes(defaultValue)
GetDataNodes(env) ==
    /\ CanCall(env)
    /\ Getter("getDataNodes", getValue(That, "dataNodes", dataNodesBuilder(That, env)))
\* that.getHashtagMap(defaultValue)
GetHashtagMap(env) ==
    /\ CanCall(env)
    /\ Getter("getHashtagMap",
              getValue(That, "hashtagMap", hashtagMapBuilder(That, env)))
\* that.getHashtagTransforms(defaultValue)
GetHashtagTransforms(env) ==
    /\ CanCall(env)
    /\ Getter("getHashtagTransforms",
              getValue(That, "hashtagTransforms", hashtagTransformsBuilder(That, env)))

\* a listener as bound by that.on("change", callback, ...), with the number
\* of times the callback has been called
Listener(invoked) == [bound |-> TRUE, invoked |-> invoked]

\* that.onChangeReady(callback) binding the callback before it asks isReady()
onChangeReadyBindFirst(ready) ==
    Let(fire(Append(listeners, Listener(0)), ready.t.fired),
        LAMBDA ls :
            [ls EXCEPT ![Len(ls)].invoked = @ + (IF ready.defined THEN 1 ELSE 0)])
\* that.onChangeReady(callback), `ready` being the isReady() call it makes:
\* the listeners afterwards
onChangeReady(ready) ==
    Append(fire(listeners, ready.t.fired),
           Listener(IF ready.defined THEN 1 ELSE 0))

OnChangeReady(env) ==
    /\ CanCall(env)
    /\ Len(listeners) < MaxListeners
    /\ Let(getValue(That, "sources", sourcesBuilder(That, env)),
           LAMBDA ready :
              /\ Commit([ready.t EXCEPT !.fired = << >>], onChangeReady(ready))
              /\ hist' = [Noted(ready.t, "onChangeReady") EXCEPT
                            !.regs = Append(@,
                                [ready |-> "sources" \in DOMAIN ready.t.cache,
                                 changes |-> 0, missed |-> 0])])
    /\ lastCall' = NoCall

\* the function onChangeReady returned: that.unbind(context, "change")
Unbind(i) ==
    /\ listeners[i].bound
    /\ Commit(That, [listeners EXCEPT ![i].bound = FALSE])
    /\ hist' = [hist EXCEPT !.last = "other"]
    /\ lastCall' = NoCall

\* $.ajax succeeds: finish(data)
AjaxSuccess(data) ==
    /\ ajax > 0
    /\ Commit(finish([That EXCEPT !.ajax = @ - 1], data), listeners)
    /\ hist' = Noted(finish(That, data), "change")
    /\ lastCall' = NoCall

\* $.ajax fails: onError
AjaxError ==
    /\ ajax > 0
    /\ Commit(onError([That EXCEPT !.ajax = @ - 1]), listeners)
    /\ hist' = Noted(onError(That), "error")
    /\ lastCall' = NoCall

\* the retry timer fires: loadDataSources(that)
RetryTimer ==
    /\ timers > 0
    /\ Commit(loadDataSources([That EXCEPT !.timers = @ - 1],
                              [sync |-> FALSE, data |-> << >>]), listeners)
    /\ hist' = Noted(loadDataSources(That, [sync |-> FALSE, data |-> << >>]), "retry")
    /\ lastCall' = NoCall

\* a function endpoint calls back later: finish(data)
EndpointCallsBack(data) ==
    /\ fnPending > 0
    /\ Commit(finish([That EXCEPT !.fnPending = @ - 1], data), listeners)
    /\ hist' = Noted(finish(That, data), "change")
    /\ lastCall' = NoCall

Next ==
    \/ Reset
    \/ \E env \in Envs : IsReady(env)
    \/ \E env \in Envs : GetDataSources(env)
    \/ \E env \in Envs : GetDataNodes(env)
    \/ \E env \in Envs : GetHashtagMap(env)
    \/ \E env \in Envs : GetHashtagTransforms(env)
    \/ \E env \in Envs : OnChangeReady(env)
    \/ \E i \in DOMAIN listeners : Unbind(i)
    \/ \E data \in LoaderLists : AjaxSuccess(data)
    \/ AjaxError
    \/ RetryTimer
    \/ \E data \in LoaderLists : EndpointCallsBack(data)

Spec == LoaderInit /\ [][Next]_vars

(***************************************************************************)
(* TreeSpec: the builders on one descriptor list                           *)
(***************************************************************************)
LoaderIdle ==
    /\ endpoint = "none" /\ cache = << >> /\ loading = FALSE
    /\ retryTimeout = InitialRetryTimeout /\ ajax = 0 /\ timers = 0
    /\ fnPending = 0 /\ listeners = << >> /\ lastCall = NoCall
    /\ hist = [changes |-> 0, resets |-> 0, bundle |-> << >>, regs |-> << >>,
               last |-> "other", requests |-> 0, errors |-> 0, delays |-> << >>,
               overlap |-> FALSE]

TreeInit ==
    /\ tSources \in TreeLists
    /\ tInvalid \in InvalidSets
    /\ tTree = NoTree
    /\ tHashtags = NoHashtags
    /\ LoaderIdle
    /\ QueueIdle /\ TransformIdle /\ RestIdle

\* getValue(that, "dataNodes") with the sources loaded: builders.dataNodes
TDataNodes ==
    /\ ~tTree.built
    /\ tTree' = dataNodes(tSources, tInvalid)
    /\ UNCHANGED <<tSources, tInvalid, tHashtags>>
    /\ UNCHANGED <<loaderVars, queueVars, transformVars, restVars>>

\* a caller of getDataNodes() calls getNodes() on a node it has got hold of
TGetNodes(p) ==
    /\ tTree.defined
    /\ p \in DOMAIN tTree.arena
    /\ Len(p) <= MaxDepth
    /\ ~IsNull(tTree.arena[p])
    /\ tTree.arena[p].expanded => tTree.again < MaxRepeats
    /\ tTree' = [treeGetNodes(Context(tSources, tInvalid), tTree, p) EXCEPT
                    !.asked = @ \cup {p},
                    !.again = IF tTree.arena[p].expanded THEN @ + 1 ELSE @]
    /\ UNCHANGED <<tSources, tInvalid, tHashtags>>
    /\ UNCHANGED <<loaderVars, queueVars, transformVars, restVars>>

\* getValue(that, "hashtags"): builders.hashtags
THashtags ==
    /\ tTree.built
    /\ ~tHashtags.built
    /\ Let(hashtags(Context(tSources, tInvalid), tTree),
           LAMBDA h :
              /\ tHashtags' = [built |-> TRUE, defined |-> h.defined, map |-> h.map,
                               transforms |-> h.transforms, threw |-> h.threw,
                               calls |-> h.calls]
              /\ tTree' = h.tree)
    /\ UNCHANGED <<tSources, tInvalid>>
    /\ UNCHANGED <<loaderVars, queueVars, transformVars, restVars>>

TreeNext ==
    \/ TDataNodes
    \/ \E p \in DOMAIN tTree.arena : TGetNodes(p)
    \/ THashtags

TreeSpec == TreeInit /\ [][TreeNext]_vars

(***************************************************************************)
(* QueueSpec: the callback-queue loader (src/unnamed/part_000)             *)
(***************************************************************************)
\* getDataSources is called this often at most
MaxCallers == 3
\* reset() is called this often at most
MaxQueueResets == 1

\* the lists a request or a function endpoint delivers
QueueLists == {<< >>, RootlessList, CyclicList}
\* what a function endpoint does when it is called: it calls back at once
\* with env.data (env.sync), or later
QueueEnvs == [sync : BOOLEAN, data : QueueLists]
\* the arguments jQuery passes to the error handler
XhrArgs == <<"jqXHR", "errorType", "exc">>

\* a callback nobody passed (undefined) in a queue; a callback that was
\* passed is known by the number of the getDataSources call that passed it
NoCallback == 0

\* the loader's variables and the invocation log, as a handler sees them;
\* issued: the requests and endpoint calls the handler made; started: one of
\* them has not finished; by: the reset() calls that had been made when the
\* request this handler answers was issued
Queue ==
    [dataCache |-> dataCache, dataCallbacks |-> dataCallbacks,
     errorCallbacks |-> errorCallbacks, log |-> qLog, issued |-> 0,
     started |-> FALSE, by |-> qHist.resets]

\* _.each(_.compact(callbacks), function (callback) { callback(args); })
RECURSIVE each(_, _, _, _, _, _)
each(log, callbacks, k, kind, args, by) ==
    IF k > Len(callbacks) THEN log
    ELSE each(IF callbacks[k] = NoCallback THEN log
              ELSE Append(log, [kind |-> kind, caller |-> callbacks[k],
                                args |-> args, sync |-> FALSE, by |-> by]),
              callbacks, k + 1, kind, args, by)

\* getDataSources/finish, storing the list as it was delivered
queueFinishAsDelivered(q, data) ==
    [q EXCEPT !.dataCache = <<data>>,
              !.log = each(q.log, q.dataCallbacks, 1, "success", data, q.by),
              !.dataCallbacks = << >>]
\* getDataSources/finish
queueFinish(q, data) ==
    Let(IF Len(data) > 0 THEN data ELSE <<NotFound>>,
        LAMBDA stored :
            [q EXCEPT !.dataCache = <<stored>>,
                      !.log = each(q.log, q.dataCallbacks, 1, "success", stored, q.by),
                      !.dataCallbacks = << >>])

\* the error handler of $.ajax
queueError(q) ==
    Let(queueFinish(q, << >>),
        LAMBDA q1 :
            [q1 EXCEPT !.log = each(q1.log, q1.errorCallbacks, 1, "error", XhrArgs,
                                         q1.by),
                       !.errorCallbacks = << >>])

\* the endpoint part of getDataSources, after the callbacks were queued
queueLoad(q, env) ==
    IF dataSourcesEndpoint = "none" THEN queueFinish(q, << >>)
    ELSE IF dataSourcesEndpoint = "fn" /\ env.sync
    THEN queueFinish([q EXCEPT !.issued = @ + 1], env.data)
    ELSE [q EXCEPT !.issued = @ + 1, !.started = TRUE]

\* getDataSources(successCallback, errorCallback), called for the n-th time
getDataSources(q, n, success, error, env) ==
    IF q.dataCache # << >>
    THEN [q EXCEPT !.log = Append(@, [kind |-> IF success = NoCallback
                                               THEN "TypeError" ELSE "success",
                                      caller |-> n, args |-> q.dataCache[1],
                                      sync |-> TRUE, by |-> q.by])]
    ELSE IF Len(q.dataCallbacks) > 0
    THEN [q EXCEPT !.dataCallbacks = Append(@, success),
                   !.errorCallbacks = Append(@, error)]
    ELSE queueLoad([q EXCEPT !.dataCallbacks = Append(@, success),
                             !.errorCallbacks = Append(@, error)], env)

\* the end of a handler
QueueCommit(q) ==
    /\ dataCache' = q.dataCache
    /\ dataCallbacks' = q.dataCallbacks
    /\ errorCallbacks' = q.errorCallbacks
    /\ qLog' = q.log
    /\ UNCHANGED <<dataSourcesEndpoint, treeVars, loaderVars, transformVars, restVars>>

\* init(instance)
QueueInit ==
    /\ dataSourcesEndpoint \in {"none", "url", "fn"}
    /\ dataCache = << >> /\ dataCallbacks = << >> /\ errorCallbacks = << >>
    /\ requests = << >> /\ callers = << >> /\ qLog = << >>
    /\ qHist = [resets |-> 0, issued |-> 0, failures |-> << >>]
    /\ tSources = << >> /\ tInvalid = {} /\ tTree = NoTree /\ tHashtags = NoHashtags
    /\ LoaderIdle /\ TransformIdle /\ RestIdle

\* reset()
QueueReset ==
    /\ qHist.resets < MaxQueueResets
    /\ QueueCommit([Queue EXCEPT !.dataCache = << >>, !.dataCallbacks = << >>,
                                 !.errorCallbacks = << >>])
    /\ qHist' = [qHist EXCEPT !.resets = @ + 1, !.issued = 0]
    /\ UNCHANGED <<requests, callers>>

\* the call would reach the endpoint
ReachesEndpoint == dataCache = << >> /\ Len(dataCallbacks) = 0
\* what the endpoint would do is left open only where a function is called
QueueCanCall(env) ==
    IF ReachesEndpoint /\ dataSourcesEndpoint = "fn" THEN TRUE
    ELSE env = [sync |-> FALSE, data |-> << >>]

\* a caller calls getDataSources, with or without either callback
QueueGetDataSources(success, error, env) ==
    /\ Len(callers) < MaxCallers
    /\ QueueCanCall(env)
    /\ Let(getDataSources(Queue, Len(callers) + 1,
                          IF success THEN Len(callers) + 1 ELSE NoCallback,
                          IF error THEN Len(callers) + 1 ELSE NoCallback, env),
           LAMBDA q :
              /\ QueueCommit(q)
              /\ requests' = IF q.started
                             THEN Append(requests, [first |-> Len(callers) + 1,
                                                    epoch |-> qHist.resets])
                             ELSE requests
              /\ qHist' = [qHist EXCEPT !.issued = @ + q.issued])
    /\ callers' = Append(callers, [success |-> success, error |-> error,
                                   epoch |-> qHist.resets,
                                   cached |-> dataCache])

Without(seq, i) == SubSeq(seq, 1, i - 1) \o SubSeq(seq, i + 1, Len(seq))

\* the i-th unfinished request succeeds: success: finish
QueueAjaxSuccess(i, data) ==
    /\ dataSourcesEndpoint = "url"
    /\ QueueCommit(queueFinish([Queue EXCEPT !.by = requests[i].epoch], data))
    /\ requests' = Without(requests, i)
    /\ UNCHANGED <<callers, qHist>>

\* the i-th unfinished request fails: the error handler
QueueAjaxError(i) ==
    /\ dataSourcesEndpoint = "url"
    /\ QueueCommit(queueError([Queue EXCEPT !.by = requests[i].epoch]))
    /\ requests' = Without(requests, i)
    /\ qHist' = [qHist EXCEPT !.failures =
                    Append(@, [first |-> requests[i].first, upto |-> Len(callers),
                               resets |-> qHist.resets, issued |-> qHist.issued,
                               log |-> Len(qLog), queued |-> dataCallbacks,
                               errors |-> errorCallbacks])]
    /\ UNCHANGED callers

\* the function endpoint calls finish for its i-th unfinished call
QueueEndpointCallsBack(i, data) ==
    /\ dataSourcesEndpoint = "fn"
    /\ QueueCommit(queueFinish([Queue EXCEPT !.by = requests[i].epoch], data))
    /\ requests' = Without(requests, i)
    /\ UNCHANGED <<callers, qHist>>

QueueNext ==
    \/ QueueReset
    \/ \E success, error \in BOOLEAN : \E env \in QueueEnvs :
          QueueGetDataSources(success, error, env)
    \/ \E i \in DOMAIN requests : \E data \in QueueLists : QueueAjaxSuccess(i, data)
    \/ \E i \in DOMAIN requests : QueueAjaxError(i)
    \/ \E i \in DOMAIN requests : \E data \in QueueLists :
          QueueEndpointCallsBack(i, data)

QueueSpec == QueueInit /\ [][QueueNext]_vars

(***************************************************************************)
(* LoadersSpec: a page that uses one of the two loaders                    *)
(***************************************************************************)
LoadersInit == LoaderInit \/ QueueInit
\* the calls go to the loader the page uses; the other one stays as it was
LoadersNext ==
    \/ QueueIdle /\ Next
    \/ LoaderIdle /\ QueueNext

LoadersSpec == LoadersInit /\ [][LoadersNext]_vars

(***************************************************************************)
(* TransformSpec: escapedHashtags.transform(input, transformFn), after     *)
(* the tokenizer and transformer rules and the #transform() test cases.    *)
(* A string is a sequence of symbols (code points): "U+0060" is the        *)
(* backtick, "a" stands for a name character, "U+1F360" for a symbol       *)
(* outside the basic plane.                                                *)
(***************************************************************************)
\* the input strings have at most this many symbols
MaxLen == 5

Delimiter == "U+0060"
Alphabet == {Delimiter, "a", "/", "-", " ", ")", "U+1F360"}
Strings(n) == UNION {[1..k -> Alphabet] : k \in 0..n}

\* the #transform() test cases with their hashtags shortened ("/a" for
\* "#case/type/prop"): input, result of the default transform, result with
\* transformToProperty
TestCases ==
    { [input |-> <<"U+0060", "/", "a", "U+0060">>,
       plain |-> <<"/", "a">>, prop |-> <<"a">>],
      [input |-> <<"U+0060", "/", "a", "U+0060", "-", " ", "a">>,
       plain |-> <<"/", "a", " ", "-", " ", "a">>,
       prop |-> <<"a", " ", "-", " ", "a">>],
      [input |-> <<"(", "U+0060", "/", "a", "U+0060", ")">>,
       plain |-> <<"(", "/", "a", ")">>, prop |-> <<"(", "a", ")">>],
      [input |-> <<"(", "U+0060", "/", "a", "U+0060">>,
       plain |-> <<"(", "/", "a">>, prop |-> <<"(", "a">>],
      [input |-> <<"U+0060", "/", "a", "U+0060", " ", "=", " ", "U+0060", "/", "a", "U+0060">>,
       plain |-> <<"/", "a", " ", "=", " ", "/", "a">>,
       prop |-> <<"a", " ", "=", " ", "a">>],
      [input |-> <<"U+0060", "U+0060">>, plain |-> <<"U+0060">>, prop |-> <<"U+0060">>],
      [input |-> <<"U+1F34A", "a", "U+1F34C", "U+0060">>,
       plain |-> <<"U+1F34A", "a", "U+1F34C", "U+0060">>,
       prop |-> <<"U+1F34A", "a", "U+1F34C", "U+0060">>],
      [input |-> <<"U+0060", "U+1F360">>,
       plain |-> <<"U+0060", "U+1F360">>, prop |-> <<"U+0060", "U+1F360">>],
      [input |-> <<"U+0060", "/", "a", "U+0060", " ", "=", " ", "U+0060">>,
       plain |-> <<"/", "a", " ", "=", " ", "U+0060">>,
       prop |-> <<"a", " ", "=", " ", "U+0060">>],
      [input |-> <<"U+0060", "/", "a", "U+0060", " ", "=", " ", "U+0060", "U+0060">>,
       plain |-> <<"/", "a", " ", "=", " ", "U+0060">>,
       prop |-> <<"a", " ", "=", " ", "U+0060">>],
      [input |-> <<"U+0060", "/", "a", "U+0060", "U+0060", "/", "a", "U+0060", " ", "=", " ", "U+0060", "U+0060">>,
       plain |-> <<"/", "a", "/", "a", " ", "=", " ", "U+0060">>,
       prop |-> <<"a", "a", " ", "=", " ", "U+0060">>],
      [input |-> <<"U+0060", "U+0060", "a", "/", "U+0060", "U+0060", "a", "U+0060", " ", "=", " ", "U+0060", "U+0060">>,
       plain |-> <<"U+0060", "a", "/", "U+0060", "a", " ", "=", " ", "U+0060">>,
       prop |-> <<"U+0060", "a", "/", "U+0060", "a", " ", "=", " ", "U+0060">>] }

\* the map functions: the default (identity) and transformToProperty
MapFns == {"identity", "transformToProperty"}

\* transformToProperty: the part after the last "/"
transformToProperty(content) ==
    Let({i \in DOMAIN content : content[i] = "/"},
        LAMBDA slashes :
            IF slashes = {} THEN content
            ELSE SubSeq(content,
                        (CHOOSE i \in slashes : \A j \in slashes : j <= i) + 1,
                        Len(content)))
ApplyFn(fn, content) ==
    IF fn = "transformToProperty" THEN transformToProperty(content) ELSE content

\* a map function that calls the map functions fns one after the other:
\* function (content) { return g(f(content)); } is <<f, g>>
RECURSIVE ApplyFns(_, _)
ApplyFns(fns, content) ==
    IF fns = << >> THEN content
    ELSE ApplyFns(Tail(fns), ApplyFn(Head(fns), content))

\* a delimiter is any symbol whose low byte is that of the backtick
IsDelimiterLowByte(symbol) == symbol \in {Delimiter, "U+1F360"}
\* a delimiter is the backtick code point
IsDelimiter(symbol) == symbol = Delimiter

\* the position of the first delimiter of s at or after i, 0 if there is none
IndexOf(s, i) ==
    Let({j \in i..Len(s) : IsDelimiter(s[j])},
        LAMBDA at : IF at = {} THEN 0 ELSE CHOOSE j \in at : \A k \in at : j <= k)

\* the token that starts with the delimiter at i, whose next delimiter is at
\* j: a span that ends the string
tokenAtGreedy(s, i, j) ==
    IF j = 0 THEN [kind |-> "hashtag", from |-> i, to |-> Len(s),
                   content |-> SubSeq(s, i + 1, Len(s))]
    ELSE IF j = i + 1 THEN [kind |-> "empty", from |-> i, to |-> j]
    ELSE [kind |-> "hashtag", from |-> i, to |-> j,
          content |-> SubSeq(s, i + 1, j - 1)]
\* the token that starts with the delimiter at i, whose next delimiter is at
\* j (0: none): an unterminated span, an empty pair or a hashtag span
tokenAt(s, i, j) ==
    IF j = 0 THEN [kind |-> "unterminated", from |-> i, to |-> Len(s)]
    ELSE IF j = i + 1 THEN [kind |-> "empty", from |-> i, to |-> j]
    ELSE [kind |-> "hashtag", from |-> i, to |-> j,
          content |-> SubSeq(s, i + 1, j - 1)]
\* the literal token that starts at i, the next delimiter being at j
literalAt(s, i, j) ==
    [kind |-> "literal", from |-> i, to |-> IF j = 0 THEN Len(s) ELSE j - 1]

\* tokenize(input) from position i on
RECURSIVE tokenize(_, _)
tokenize(s, i) ==
    IF i > Len(s) THEN << >>
    ELSE Let(IF IsDelimiter(s[i]) THEN tokenAt(s, i, IndexOf(s, i + 1))
             ELSE literalAt(s, i, IndexOf(s, i)),
             LAMBDA token : <<token>> \o tokenize(s, token.to + 1))

\* never a space after a hashtag span
separatorNone(s, token) == << >>
\* the space put after a hashtag span that a "-" follows
separator(s, token) ==
    IF token.to < Len(s) /\ s[token.to + 1] = "-" THEN <<" ">> ELSE << >>

\* an empty pair gives nothing
emptyPairDropped(s) == << >>
\* an empty pair gives one backtick
emptyPair(s) == <<Delimiter>>

\* what a token contributes to the result, without the map function
emitVerbatim(s, fns, token) ==
    CASE token.kind = "hashtag" -> token.content \o separator(s, token)
      [] token.kind = "empty" -> emptyPair(s)
      [] OTHER -> SubSeq(s, token.from, token.to)
\* what a token contributes to the result
emit(s, fns, token) ==
    CASE token.kind = "hashtag" ->
            ApplyFns(fns, token.content) \o separator(s, token)
      [] token.kind = "empty" -> emptyPair(s)
      [] OTHER -> SubSeq(s, token.from, token.to)

RECURSIVE join(_, _, _, _)
join(s, fns, tokens, k) ==
    IF k > Len(tokens) THEN << >>
    ELSE emit(s, fns, tokens[k]) \o join(s, fns, tokens, k + 1)

\* transform(input, transformFn)
transform(s, fn) == join(s, <<fn>>, tokenize(s, 1), 1)
\* transform with a map function that drops g
transformFirstOnly(s, f, g) == join(s, <<f>>, tokenize(s, 1), 1)
\* transform(input, function (content) { return g(f(content)); })
transformComposed(s, f, g) == join(s, <<f, g>>, tokenize(s, 1), 1)

TransformInit ==
    /\ xInput \in Strings(MaxLen) \cup {t.input : t \in TestCases}
    /\ xFn \in MapFns
    /\ xOutput = << >>
    /\ xAgain = << >>
    /\ tSources = << >> /\ tInvalid = {} /\ tTree = NoTree /\ tHashtags = NoHashtags
    /\ LoaderIdle /\ QueueIdle /\ RestIdle

\* escapedHashtags.transform(input, transformFn)
Transform ==
    /\ xOutput = << >>
    /\ xOutput' = <<transform(xInput, xFn)>>
    /\ UNCHANGED <<xInput, xFn, xAgain, treeVars, loaderVars, queueVars, restVars>>

\* escapedHashtags.transform(output, g), output being the string the first
\* call returned
TransformAgain(g) ==
    /\ xOutput # << >>
    /\ xAgain = << >>
    /\ xAgain' = <<[fn |-> g, output |-> transform(xOutput[1], g)]>>
    /\ UNCHANGED <<xInput, xFn, xOutput, treeVars, loaderVars, queueVars, restVars>>

TransformNext ==
    \/ Transform
    \/ \E g \in MapFns : TransformAgain(g)

TransformSpec == TransformInit /\ [][TransformNext]_vars

\* the result of the call, once made
Called == xOutput # << >>
Output == xOutput[1]
\* the result the test cases expect for the input
TransformMatchesTests ==
    Called => \A t \in TestCases :
        t.input = xInput =>
            Output = IF xFn = "identity" THEN t.plain ELSE t.prop

(***************************************************************************)
(* ParserSpec: escapedHashtags.parser(hashtagInfo).parse(input) and the    *)
(* toXPath() and toEscapedHashtag() methods of the parsed expression,      *)
(* after the resolver rules and the #toEscapedHashtag() and #toXPath()     *)
(* test cases.  A symbol of an expression is a backtick, a whole hashtag   *)
(* or path, the digit "1", "-" or a blank.                                 *)
(***************************************************************************)
\* the expressions have at most this many operands
MaxOperands == 2

\* hashtagInfo of the tests
hashtagMap ==
    ("#form/text1" :> "/data/text1") @@ ("#form/text2" :> "/data/text2")
invertedHashtagMap ==
    [path \in {hashtagMap[h] : h \in DOMAIN hashtagMap} |->
        CHOOSE h \in DOMAIN hashtagMap : hashtagMap[h] = path]

\* the hashtags and paths of the expressions: those of hashtagInfo and one
\* hashtag and one path it does not know
NameSymbols ==
    DOMAIN hashtagMap \cup DOMAIN invertedHashtagMap \cup {"#form/text3", "/data/text3"}
\* the symbols that continue a name
NameChars == {"-", "1"}

\* an operand is a bare name, a name between backticks or a number; the
\* operands of an expression are separated by "-", with or without blanks
Operands ==
    {<<n>> : n \in NameSymbols} \cup {<<Delimiter, n, Delimiter>> : n \in NameSymbols}
        \cup {<<"1">>}
Separators == {<<"-">>, <<" ", "-">>, <<"-", " ">>, <<" ", "-", " ">>}
RECURSIVE Expressions(_)
Expressions(n) ==
    IF n = 1 THEN Operands
    ELSE Let(Expressions(n - 1),
             LAMBDA shorter :
                shorter \cup {e \o s \o o : e \in shorter, s \in Separators, o \in Operands})

\* the #toEscapedHashtag() and #toXPath() test cases
ParserTestCases ==
    { [method |-> "toEscapedHashtag", input |-> <<"#form/text1">>,
       output |-> <<"U+0060", "#form/text1", "U+0060">>],
      [method |-> "toEscapedHashtag", input |-> <<"/data/text1">>,
       output |-> <<"U+0060", "#form/text1", "U+0060">>],
      [method |-> "toEscapedHashtag", input |-> <<"U+0060", "#form/text1", "U+0060">>,
       output |-> <<"U+0060", "#form/text1", "U+0060">>],
      [method |-> "toEscapedHashtag", input |-> <<"#form/text1", " ", "-", "1">>,
       output |-> <<"U+0060", "#form/text1", "U+0060", " ", "-", " ", "1">>],
      [method |-> "toEscapedHashtag", input |-> <<"/data/text1", " ", "-", "1">>,
       output |-> <<"U+0060", "#form/text1", "U+0060", " ", "-", " ", "1">>],
      [method |-> "toEscapedHashtag", input |-> <<"U+0060", "#form/text1", "U+0060", "-", "1">>,
       output |-> <<"U+0060", "#form/text1", "U+0060", " ", "-", " ", "1">>],
      [method |-> "toXPath", input |-> <<"U+0060", "/data/text1", "U+0060">>,
       output |-> <<"/data/text1">>],
      [method |-> "toXPath", input |-> <<"U+0060", "#form/text1", "U+0060">>,
       output |-> <<"/data/text1">>],
      [method |-> "toXPath", input |-> <<"U+0060", "#form/text1", "U+0060", "-", "1">>,
       output |-> <<"/data/text1", " ", "-", " ", "1">>] }
Methods == {"toXPath", "toEscapedHashtag"}

\* the last symbol of the run of symbols of `chars` that follows position i
RunEnd(t, i, chars) ==
    CHOOSE j \in i..Len(t) :
        /\ \A k \in (i + 1)..j : t[k] \in chars
        /\ j = Len(t) \/ t[j + 1] \notin chars

\* the token of the expression text t that starts at i: a name with the
\* name characters that follow it, a number, an operator
tokenOf(t, i) ==
    CASE t[i] \in NameSymbols ->
            Let(RunEnd(t, i, NameChars),
                LAMBDA j : [kind |-> "name", text |-> SubSeq(t, i, j), to |-> j])
      [] t[i] = "1" ->
            Let(RunEnd(t, i, {"1"}),
                LAMBDA j : [kind |-> "number", text |-> SubSeq(t, i, j), to |-> j])
      [] t[i] = "-" -> [kind |-> "minus", text |-> <<"-">>, to |-> i]
      [] OTHER -> [kind |-> "unknown", text |-> <<t[i]>>, to |-> i]
RECURSIVE lex(_, _)
lex(t, i) ==
    IF i > Len(t) THEN << >>
    ELSE IF t[i] = " " THEN lex(t, i + 1)
    ELSE Let(tokenOf(t, i), LAMBDA token : <<token>> \o lex(t, token.to + 1))

\* the text is an expression: operands with a "-" between them
Parses(tokens) ==
    /\ Len(tokens) % 2 = 1
    /\ \A k \in DOMAIN tokens :
        IF k % 2 = 1 THEN tokens[k].kind \in {"name", "number"}
        ELSE tokens[k].kind = "minus"

\* parser.parse(input): the expression read from the input with its
\* delimiters stripped
parse(input) == lex(transform(input, "identity"), 1)

IsName(token, names) ==
    token.kind = "name" /\ Len(token.text) = 1 /\ token.text[1] \in names

\* toXPath of an operand that puts the delimiters back around an unknown name
toXPathOperandKeep(token) ==
    IF IsName(token, DOMAIN hashtagMap) THEN <<hashtagMap[token.text[1]]>>
    ELSE IF token.kind = "name" THEN <<Delimiter>> \o token.text \o <<Delimiter>>
    ELSE token.text
\* toXPath of an operand: the path of a known hashtag, else the text
toXPathOperand(token) ==
    IF IsName(token, DOMAIN hashtagMap) THEN <<hashtagMap[token.text[1]]>>
    ELSE token.text

\* toEscapedHashtag of an operand that does not look paths up
toEscapedOperandNoPaths(token) ==
    IF IsName(token, DOMAIN hashtagMap)
    THEN <<Delimiter, token.text[1], Delimiter>>
    ELSE token.text
\* toEscapedHashtag of an operand: the canonical form of a known hashtag
\* and of the path of one, else the text
toEscapedOperand(token) ==
    IF IsName(token, DOMAIN hashtagMap)
    THEN <<Delimiter, token.text[1], Delimiter>>
    ELSE IF IsName(token, DOMAIN invertedHashtagMap)
    THEN <<Delimiter, invertedHashtagMap[token.text[1]], Delimiter>>
    ELSE token.text

\* the expression written out: operators with a blank on either side
RECURSIVE serialize(_, _, _)
serialize(tokens, k, method) ==
    IF k > Len(tokens) THEN << >>
    ELSE (IF tokens[k].kind = "minus" THEN <<" ", "-", " ">>
          ELSE IF method = "toXPath" THEN toXPathOperand(tokens[k])
          ELSE toEscapedOperand(tokens[k]))
         \o serialize(tokens, k + 1, method)

toXPath(parsed) == serialize(parsed, 1, "toXPath")
toEscapedHashtag(parsed) == serialize(parsed, 1, "toEscapedHashtag")
CallMethod(method, parsed) ==
    IF method = "toXPath" THEN toXPath(parsed) ELSE toEscapedHashtag(parsed)

ParserInit ==
    /\ pInput \in {e \in Expressions(MaxOperands) : Parses(parse(e))}
                    \cup {c.input : c \in ParserTestCases}
    /\ pCall = << >>
    /\ pAgain = << >>
    /\ tSources = << >> /\ tInvalid = {} /\ tTree = NoTree /\ tHashtags = NoHashtags
    /\ LoaderIdle /\ QueueIdle /\ TransformIdle /\ IntentIdle /\ UndoIdle

\* parser.parse(input).toXPath() / .toEscapedHashtag()
ParserCall(method) ==
    /\ pCall = << >>
    /\ pCall' = <<[method |-> method, output |-> CallMethod(method, parse(pInput))]>>
    /\ UNCHANGED <<pInput, pAgain, treeVars, loaderVars, queueVars, transformVars,
                   intentVars, undoVars>>

\* the same method on the result of parsing the string returned
ParserAgain ==
    /\ pCall # << >>
    /\ pAgain = << >>
    /\ pAgain' = <<[parses |-> Parses(parse(pCall[1].output)),
                    output |-> CallMethod(pCall[1].method, parse(pCall[1].output))]>>
    /\ UNCHANGED <<pInput, pCall, treeVars, loaderVars, queueVars, transformVars,
                   intentVars, undoVars>>

ParserNext ==
    \/ \E method \in Methods : ParserCall(method)
    \/ ParserAgain

ParserSpec == ParserInit /\ [][ParserNext]_vars

\* the result the test cases expect for the input
ParserMatchesTests ==
    pCall # << >> =>
        \A c \in ParserTestCases :
            c.input = pInput /\ c.method = pCall[1].method => pCall[1].output = c.output

(***************************************************************************)
(* IntentSpec: the intents plugin of src/src/intentManager.js (loadXML,    *)
(* handleNewMug, handleMugParseFinish, contributeToHeadXML).  An object    *)
(* keyed by id is a sequence of [id, tag] entries in insertion order; the  *)
(* id "undefined" is the key JavaScript makes of a missing id.             *)
(***************************************************************************)
\* the head of the form has at most this many odkx:intent elements
MaxTags == 2
\* the form has at most this many mugs
MaxMugs == 2

TagIds == {"a", "b", "undefined"}
AppIds == {"", "app"}
ClassNames == {"AndroidIntent", "Text"}
\* the odkx:intent elements of a form: id and class attribute
TagXML == [id : TagIds, class : AppIds]
HeadXML == UNION {[1..n -> TagXML] : n \in 0..MaxTags}

\* makeODKXIntentTag(nodeID, appID)
makeODKXIntentTag(nodeID, appID) ==
    [nodeID |-> nodeID, androidIntentAppId |-> appID]

Keys(obj) == {obj[k].id : k \in DOMAIN obj}
Get(obj, id) == obj[CHOOSE k \in DOMAIN obj : obj[k].id = id].tag
\* obj[id] = tag
Set(obj, id, tag) ==
    IF id \in Keys(obj)
    THEN [k \in DOMAIN obj |-> IF obj[k].id = id THEN [id |-> id, tag |-> tag] ELSE obj[k]]
    ELSE Append(obj, [id |-> id, tag |-> tag])
IsOtherKey(entry, id) == entry.id # id
\* delete obj[id]
Delete(obj, id) == SelectSeq(obj, LAMBDA entry : IsOtherKey(entry, id))

\* parseIntentTags(tags), from the k-th tag on
RECURSIVE parseIntentTags(_, _, _)
parseIntentTags(intentTags, tags, k) ==
    IF k > Len(tags) THEN intentTags
    ELSE parseIntentTags(
            Set(intentTags, tags[k].id, makeODKXIntentTag(tags[k].id, tags[k].class)),
            tags, k + 1)

\* syncMugWithIntent without the delete
syncMugWithIntentKeep(tags, mug) ==
    IF mug.className = "AndroidIntent"
    THEN Let(IF mug.nodeID \in Keys(tags) THEN Get(tags, mug.nodeID)
             ELSE makeODKXIntentTag(mug.nodeID, ""),
             LAMBDA tag :
                [tags |-> tags,
                 mug |-> [mug EXCEPT !.androidIntentAppId = tag.androidIntentAppId],
                 claimed |-> {mug.nodeID} \cap Keys(tags)])
    ELSE [tags |-> tags, mug |-> mug, claimed |-> {}]
\* syncMugWithIntent(tags, mug)
syncMugWithIntent(tags, mug) ==
    IF mug.className = "AndroidIntent"
    THEN Let(IF mug.nodeID \in Keys(tags) THEN Get(tags, mug.nodeID)
             ELSE makeODKXIntentTag(mug.nodeID, ""),
             LAMBDA tag :
                [tags |-> Delete(tags, tag.nodeID),
                 mug |-> [mug EXCEPT !.androidIntentAppId = tag.androidIntentAppId],
                 claimed |-> {mug.nodeID} \cap Keys(tags)])
    ELSE [tags |-> tags, mug |-> mug, claimed |-> {}]

\* mug.options.dataType
dataType(mug) == IF mug.className = "AndroidIntent" THEN "intent" ELSE "text"

\* writeXML(xmlWriter, properties): the odkx:intent element written
writeXML(properties, from, at) ==
    [id |-> properties.nodeID, class |-> properties.androidIntentAppId,
     from |-> from, at |-> at]

\* tree.treeMap(getIntentMugs), from the k-th mug on
RECURSIVE getIntentMugs(_, _)
getIntentMugs(tree, k) ==
    IF k > Len(tree) THEN << >>
    ELSE (IF dataType(tree[k]) = "intent" THEN <<writeXML(tree[k], "mug", k)>>
          ELSE << >>)
         \o getIntentMugs(tree, k + 1)

\* writeIntentXML(unmappedIntentTags, xmlWriter, tree): what is written
writeIntentXML(tags, tree) ==
    [k \in DOMAIN tags |-> writeXML(tags[k].tag, "tag", k)] \o getIntentMugs(tree, 1)

IntentInit ==
    /\ unmappedIntentTags = << >>
    /\ iTree = << >>
    /\ iHist = [loaded |-> FALSE, parsed |-> {}, claimed |-> {}, wrote |-> FALSE,
                written |-> << >>]
    /\ tSources = << >> /\ tInvalid = {} /\ tTree = NoTree /\ tHashtags = NoHashtags
    /\ LoaderIdle /\ QueueIdle /\ TransformIdle /\ ParserIdle /\ UndoIdle

\* loadXML(xml), the head of xml holding the elements `tags`
LoadXML(tags) ==
    /\ ~iHist.loaded
    /\ unmappedIntentTags' = parseIntentTags(<< >>, tags, 1)
    /\ iHist' = [iHist EXCEPT !.loaded = TRUE,
                              !.parsed = {tags[k].id : k \in DOMAIN tags}]
    /\ UNCHANGED <<iTree, treeVars, loaderVars, queueVars, transformVars,
                   parserVars, undoVars>>

\* the nodeIDs of the mugs of the form other than the i-th
OtherNodeIDs(i) == {iTree[k].nodeID : k \in DOMAIN iTree \ {i}}

\* handleNewMug(mug): the mug has joined the form
HandleNewMug(className, nodeID) ==
    /\ iHist.loaded
    /\ Len(iTree) < MaxMugs
    /\ nodeID \notin OtherNodeIDs(0)
    /\ Let(syncMugWithIntent(unmappedIntentTags,
                             [className |-> className, nodeID |-> nodeID,
                              androidIntentAppId |-> ""]),
           LAMBDA synced :
              /\ unmappedIntentTags' = synced.tags
              /\ iTree' = Append(iTree, synced.mug)
              /\ iHist' = [iHist EXCEPT !.claimed = @ \cup synced.claimed,
                                        !.wrote = FALSE, !.written = << >>])
    /\ UNCHANGED <<treeVars, loaderVars, queueVars, transformVars,
                   parserVars, undoVars>>

\* handleMugParseFinish(mug): the i-th mug has been read from the form, its
\* nodeID with it
HandleMugParseFinish(i, nodeID) ==
    /\ iHist.loaded
    /\ iTree[i].nodeID \in {"undefined", nodeID}
    /\ nodeID \notin OtherNodeIDs(i)
    /\ Let(syncMugWithIntent(unmappedIntentTags, [iTree[i] EXCEPT !.nodeID = nodeID]),
           LAMBDA synced :
              /\ unmappedIntentTags' = synced.tags
              /\ iTree' = [iTree EXCEPT ![i] = synced.mug]
              /\ iHist' = [iHist EXCEPT !.claimed = @ \cup synced.claimed,
                                        !.wrote = FALSE, !.written = << >>])
    /\ UNCHANGED <<treeVars, loaderVars, queueVars, transformVars,
                   parserVars, undoVars>>

\* contributeToHeadXML(xmlWriter, form)
ContributeToHeadXML ==
    /\ iHist.loaded
    /\ ~iHist.wrote
    /\ iHist' = [iHist EXCEPT !.wrote = TRUE,
                              !.written = writeIntentXML(unmappedIntentTags, iTree)]
    /\ UNCHANGED <<unmappedIntentTags, iTree, treeVars, loaderVars, queueVars,
                   transformVars, parserVars, undoVars>>

IntentNext ==
    \/ \E tags \in HeadXML : LoadXML(tags)
    \/ \E className \in ClassNames, nodeID \in TagIds : HandleNewMug(className, nodeID)
    \/ \E i \in DOMAIN iTree, nodeID \in TagIds : HandleMugParseFinish(i, nodeID)
    \/ ContributeToHeadXML

IntentSpec == IntentInit /\ [][IntentNext]_vars

(***************************************************************************)
(* UndoSpec: the UndoManager                                               *)
(***************************************************************************)
\* the undo stack holds this many entries at most
MaxStack == 3

\* the mugs of the form, the sibling a mug is put back next to (or none),
\* and where
Mugs == {"m1", "m2"}
PreviousMugs == Mugs \cup {Null}
Positions == {"after", "into"}
\* [mug, previousMug, position]
UndoEntries ==
    {e \in Mugs \X PreviousMugs \X Positions : e[1] # e[2]}

\* the UndoManager and the page as a method sees and changes them; fired:
\* the 'reset' events it has fired; inserted: the insertQuestion calls made
Manager ==
    [undoStack |-> undoStack, alert |-> uAlert, fired |-> 0, inserted |-> << >>]

\* toggleAlert(undoStack): whether the alert is on the page afterwards
toggleAlert(stack, alertShown) ==
    IF Len(stack) > 0 /\ ~alertShown THEN TRUE
    ELSE IF Len(stack) = 0 /\ alertShown THEN FALSE
    ELSE alertShown

\* resetUndo(mug, previousMug, position)
resetUndo(u, mug, previousMug, position) ==
    Let(IF Truthy(mug) THEN <<(<<mug, previousMug, position>>)>> ELSE << >>,
        LAMBDA stack :
            [u EXCEPT !.undoStack = stack,
                      !.alert = toggleAlert(stack, @),
                      !.fired = @ + 1])

\* appendMug putting the entry in front of the others
appendMugInFront(u, mug, previousMug, position) ==
    Let(<<(<<mug, previousMug, position>>)>> \o u.undoStack,
        LAMBDA stack :
            [u EXCEPT !.undoStack = stack, !.alert = toggleAlert(stack, @)])
\* appendMug(mug, previousMug, position)
appendMug(u, mug, previousMug, position) ==
    Let(u.undoStack \o <<(<<mug, previousMug, position>>)>>,
        LAMBDA stack :
            [u EXCEPT !.undoStack = stack, !.alert = toggleAlert(stack, @)])

\* _.each(this.undoStack, ...): the insertQuestion(mug, sibling, position,
\* true) calls, from the k-th entry on
RECURSIVE insertQuestions(_, _, _)
insertQuestions(calls, stack, k) ==
    IF k > Len(stack) THEN calls
    ELSE insertQuestions(Append(calls, [mug |-> stack[k][1], sibling |-> stack[k][2],
                                        position |-> stack[k][3]]),
                         stack, k + 1)

\* undo()
undo(u) ==
    resetUndo([u EXCEPT !.inserted = insertQuestions(@, u.undoStack, 1)],
              Null, Null, Null)

\* new UndoManager()
UndoInit ==
    /\ undoStack = << >>
    /\ uAlert = FALSE
    /\ uHist = [passed |-> << >>, undone |-> << >>, inserted |-> << >>,
                fired |-> 0, last |-> "none"]
    /\ tSources = << >> /\ tInvalid = {} /\ tTree = NoTree /\ tHashtags = NoHashtags
    /\ LoaderIdle /\ QueueIdle /\ TransformIdle /\ ParserIdle /\ IntentIdle

\* the end of a method; history: the entries passed since the last
\* resetUndo or undo, and of the last call its name, the stack it found if
\* it was undo, its insertQuestion calls and the 'reset' events it fired
UndoCommit(u, op, passed) ==
    /\ undoStack' = u.undoStack
    /\ uAlert' = u.alert
    /\ uHist' = [passed |-> passed,
                 undone |-> IF op = "undo" THEN undoStack ELSE << >>,
                 inserted |-> u.inserted, fired |-> u.fired, last |-> op]
    /\ UNCHANGED <<treeVars, loaderVars, queueVars, transformVars, parserVars,
                   intentVars>>

ResetUndo(mug, previousMug, position) ==
    UndoCommit(resetUndo(Manager, mug, previousMug, position), "resetUndo",
               IF mug \in Mugs THEN <<(<<mug, previousMug, position>>)>> ELSE << >>)

AppendMug(mug, previousMug, position) ==
    /\ Len(undoStack) < MaxStack
    /\ UndoCommit(appendMug(Manager, mug, previousMug, position), "appendMug",
                  Append(uHist.passed, <<mug, previousMug, position>>))

Undo == UndoCommit(undo(Manager), "undo", << >>)

UndoNext ==
    \/ \E e \in UndoEntries : ResetUndo(e[1], e[2], e[3])
    \/ ResetUndo(Null, Null, Null)
    \/ \E e \in UndoEntries : AppendMug(e[1], e[2], e[3])
    \/ Undo

UndoSpec == UndoInit /\ [][UndoNext]_vars

(***************************************************************************)
(* Properties of the tree and of the compiled hashtags (TreeSpec)          *)
(***************************************************************************)
Range(f) == {f[x] : x \in DOMAIN f}
Arena == tTree.arena
\* the node objects (node() returned null for the others)
Nodes == {p \in DOMAIN Arena : ~IsNull(Arena[p])}
\* the nodes above p, the suppressed root excluded
Ancestors(p) == {SubSeq(p, 1, k) : k \in 1..(Len(p) - 1)}
\* the id of the source or subset a reference node resolved to
TargetId(n) ==
    IF ~IsNull(n) /\ ~IsUndefined(n.source) /\ Has(n.source, "id")
    THEN n.source.id ELSE Null
\* p resolved to a source or subset that a node above it resolved to
ReEntrant(p) ==
    /\ TargetId(Arena[p]) # Null
    /\ \E q \in Ancestors(p) : TargetId(Arena[q]) = TargetId(Arena[p])
\* builders.hashtags threw: the walk read a property of a null entry
Threw == tHashtags.built /\ tHashtags.threw
\* builders.hashtags returned the compiled hashtags
Compiled == tHashtags.built /\ tHashtags.defined /\ ~tHashtags.threw
\* p comes before q in depth-first order
Precedes(p, q) ==
    \/ Len(p) < Len(q) /\ SubSeq(q, 1, Len(p)) = p
    \/ \E k \in 1..Len(p) :
          /\ k <= Len(q)
          /\ SubSeq(p, 1, k - 1) = SubSeq(q, 1, k - 1)
          /\ p[k] < q[k]
\* the nodes the compile walk visits: below the root, under no recursive node
Reached ==
    {p \in DOMAIN Arena : p # << >> /\ \A q \in Ancestors(p) : ~Arena[q].recursive}
\* the visited nodes that carry a hashtag and are no index node
Tagged == {p \in Reached \cap Nodes : Arena[p].hashtag # Null /\ ~Arena[p].index}

\* C1: on a cyclic reference graph the compile ends normally, a node that
\* re-enters a source above it is recursive and the walk never calls its
\* getNodes(), and the map holds the hashtags of the own properties of the
\* sources on the cycle.
C1_CyclicCompile ==
    /\ (tHashtags.built /\ \A p \in DOMAIN Arena : ~IsNull(Arena[p])) => ~Threw
    /\ Compiled =>
        /\ \A p \in Nodes :
              ReEntrant(p) => Arena[p].recursive /\ p \notin Range(tHashtags.calls)
        /\ tSources = CyclicList =>
              {"#case/A/pa", "#case/B/pb"} \subseteq DOMAIN tHashtags.map
        /\ tSources = SubsetList =>
              {"#case/color", "#case/parent/age"} \subseteq DOMAIN tHashtags.map
C1_Witness ==
    /\ Compiled
    /\ tSources = CyclicList
    /\ \E p \in Nodes : ReEntrant(p) /\ Arena[p].recursive /\ ~Arena[p].expanded
    /\ "#case/B/pb" \in DOMAIN tHashtags.map

\* the ids of a structure that invalidCaseProperties does not exclude
Ids(structure) == {structure[k].id : k \in DOMAIN structure} \ tInvalid
\* the descriptor whose subset the node at p resolved to, if any
SubsetOwners(p) ==
    {src \in Range(tSources) :
        /\ Has(src, "subsets")
        /\ ~IsUndefined(Arena[p].source)
        /\ Arena[p].source \in Range(src.subsets)}
ChildIds(p) ==
    {LET c == Arena[Arena[p].children[k]] IN
        SubSeq(c.xpath, Len(c.parentPath) + 2, Len(c.xpath)) :
     k \in {j \in DOMAIN Arena[p].children : ~Arena[Arena[p].children[j]].index}}

\* C2 (as claimed): the children of a node that selected a subset are the
\* properties of the unfiltered structure together with those of the subset,
\* and the compiled map has hashtags for both 'name' and 'color'.
C2_SubsetMerged ==
    /\ \A p \in Nodes : \A src \in SubsetOwners(p) :
          Arena[p].expanded =>
              Ids(src.structure) \cup Ids(Arena[p].source.structure) \subseteq ChildIds(p)
    /\ (Compiled /\ tSources = SubsetList) =>
          {"#case/name", "#case/color"} \subseteq DOMAIN tHashtags.map

\* C3 (as claimed): a node is recursive only when its target already occurs
\* on its own ancestor chain.
C3_RecursiveOnlyOnChain ==
    \A p \in Nodes : Arena[p].recursive => ReEntrant(p)

DanglingPaths ==
    LET ids == {tSources[k].id : k \in DOMAIN tSources}
        root == IndexBy(tSources)["commcaresession"]
    IN  {"instance('commcaresession')" \o root.path \o "/" \o e.id :
            e \in {x \in Range(root.structure) :
                      /\ Has(x.item, "reference")
                      /\ x.item.reference.source \notin ids}}
\* the list without those references
WithoutDangling ==
    LET ids == {tSources[k].id : k \in DOMAIN tSources}
        keep(e) == ~Has(e.item, "reference") \/ e.item.reference.source \in ids
    IN  [k \in DOMAIN tSources |->
            IF tSources[k].id = "commcaresession"
            THEN [tSources[k] EXCEPT !.structure = SelectSeq(@, keep)]
            ELSE tSources[k]]

\* C10: a reference to a source id that is no descriptor gives a node that is
\* not recursive, keeps its path and has no children; the compile ends
\* normally and has every hashtag the list without the reference gives.
C10_DanglingReference ==
    tTree.defined =>
        /\ \A p \in Nodes : Arena[p].xpath \in DanglingPaths =>
              /\ ~Arena[p].recursive
              /\ Arena[p].path = Arena[p].xpath
              /\ Arena[p].children = << >>
        /\ Compiled =>
              /\ ~tHashtags.threw
              /\ DOMAIN hashtags(Context(WithoutDangling, tInvalid),
                                 dataNodes(WithoutDangling, tInvalid)).map
                     \subseteq DOMAIN tHashtags.map
C10_Witness ==
    /\ Compiled
    /\ \E p \in Nodes : Arena[p].xpath \in DanglingPaths /\ Arena[p].expanded
    /\ "#case/C/pc" \in DOMAIN tHashtags.map

\* the id a node was created for: the last step of its xpath
NodeId(p) == SubSeq(Arena[p].xpath, Len(Arena[p].parentPath) + 2, Len(Arena[p].xpath))
\* the elements of the getNodes() result of the node at p
Siblings(p) == Arena[p].children

\* C11 (as claimed): in every getNodes() result the index nodes come first
\* and, within the index nodes and within the structural children, the nodes
\* are in the order of their display names.
C11_SortedByName ==
    \A p \in Nodes : \A i, j \in DOMAIN Siblings(p) :
        (/\ i < j
         /\ ~IsNull(Arena[Siblings(p)[i]])
         /\ ~IsNull(Arena[Siblings(p)[j]])) =>
            /\ Arena[Siblings(p)[j]].index => Arena[Siblings(p)[i]].index
            /\ Arena[Siblings(p)[i]].index = Arena[Siblings(p)[j]].index =>
                  ~StrLess(Arena[Siblings(p)[j]].name, Arena[Siblings(p)[i]].name)

\* the hashtags _.object(_.map(hashtagMap, (v, k) => [v, k])) can hold for a
\* path: the inverted map keeps one of the hashtags that map to it
InvertedChoices(path) == {h \in DOMAIN tHashtags.map : tHashtags.map[h] = path}

\* C12: no two hashtags of a compiled map have the same path, so the inverted
\* map takes the path of every hashtag back to that hashtag.
C12_MapInvertible ==
    Compiled =>
        \A h \in DOMAIN tHashtags.map : InvertedChoices(tHashtags.map[h]) = {h}
C12_Witness ==
    /\ Compiled
    /\ Cardinality(DOMAIN tHashtags.map) >= 2
    /\ \E p, q \in Tagged : p # q /\ Arena[p].hashtag = Arena[q].hashtag

\* the node that produced the map entry of its hashtag: the last visited
\* node with that hashtag
Producer(p) ==
    /\ p \in Tagged
    /\ \A q \in Tagged : (Arena[q].hashtag = Arena[p].hashtag /\ q # p) => Precedes(q, p)

\* C31 (as claimed): for every entry h -> path of the compiled map, with
\* h = prefix + id and prefix the hashtagPrefix of the node that produced
\* the entry, transforms[prefix] exists and transforms[prefix](id) is path.
C31_TransformsAgree ==
    Compiled =>
        \A p \in Tagged : Producer(p) =>
            /\ Arena[p].hashtag = Arena[p].hashtagPrefix \o NodeId(p)
            /\ Arena[p].hashtagPrefix \in DOMAIN tHashtags.transforms
            /\ ApplyTransform(tHashtags.transforms[Arena[p].hashtagPrefix], NodeId(p))
                   = tHashtags.map[Arena[p].hashtag]

\* C13 (as claimed): every element of every getNodes() result is a node whose
\* id is not excluded, the compile does not fail, and no excluded id has a
\* hashtag.
C13_ExcludedSkipped ==
    /\ \A p \in DOMAIN Arena \ {<< >>} :
          ~IsNull(Arena[p]) /\ NodeId(p) \notin tInvalid
    /\ ~Threw
    /\ Compiled => \A p \in Tagged : NodeId(p) \notin tInvalid

\* the nodes whose children have been computed
Expanded == {p \in Nodes : Arena[p].expanded}
\* the entries of the arena below p
Below(p) == {q \in DOMAIN Arena : Len(q) > Len(p) /\ SubSeq(q, 1, Len(p)) = p}
\* a holder has called getNodes() on a node that had its children
Repeated == tTree.again' > tTree.again

\* C25: a node has children only once getNodes() was called on it, by
\* builders.dataNodes (the root), by a holder of the node or by the compile
\* walk; its children are the nodes the first call computed; a later call
\* changes neither the nodes nor `seen`.
C25_LazyMemoized ==
    /\ [](tTree.defined =>
            /\ \A p \in Nodes \ Expanded : Below(p) = {}
            /\ Expanded \subseteq
                  {<< >>} \cup tTree.asked \cup Range(tHashtags.calls)
            /\ (tTree.asked = {} /\ ~tHashtags.built) => Expanded = {<< >>}
            /\ \A p \in Expanded :
                  Range(Arena[p].children) = {q \in Below(p) : Len(q) = Len(p) + 1})
    /\ [][Repeated =>
            /\ tTree'.arena = tTree.arena
            /\ tTree'.seen = tTree.seen
            /\ tTree'.nodes = tTree.nodes]_vars
C25_Witness ==
    /\ tTree.defined
    /\ tTree.again = 1
    /\ tSources = CyclicList
    /\ \E p \in tTree.asked :
          /\ p # << >>
          /\ Arena[p].expanded
          /\ Arena[p].children # << >>
          /\ \E k \in DOMAIN Arena[p].children :
                ~Arena[Arena[p].children[k]].expanded
    /\ ~tHashtags.built

(***************************************************************************)
(* Properties of the loader (Spec)                                         *)
(***************************************************************************)
\* the cache holds a descriptor list with the commcaresession root
Usable == "sources" \in DOMAIN cache
          /\ "commcaresession" \in DOMAIN IndexBy(cache["sources"])
\* the names of the values derived from the sources
Derived == {"dataNodes", "hashtags", "hashtagMap", "hashtagTransforms"}
\* what the builders give for the list now in the cache
FreshTree == dataNodes(cache["sources"], tInvalid)
FreshHashtags == hashtags(Context(cache["sources"], tInvalid), FreshTree)
\* the value a getter has to return when it does not return the default
Expected(op, value) ==
    CASE op = "getDataNodes" ->
            /\ value.closure = Context(cache["sources"], tInvalid)
            /\ value.tree \in {FreshTree, FreshHashtags.tree}
      [] op = "getHashtagMap" -> value = FreshHashtags.map
      [] op = "getHashtagTransforms" -> value = FreshHashtags.transforms
      [] OTHER -> TRUE
DerivedGetters == {"getDataNodes", "getHashtagMap", "getHashtagTransforms"}

\* C4 (as claimed): between init or reset and the next reset the change
\* event is fired at most once.
C4_ChangeAtMostOnce == hist.changes <= 1

\* C5: the callback of every onChangeReady registration has been called once
\* if the sources were loaded when onChangeReady returned (and not at all
\* then otherwise), plus once for every change event fired from then until
\* its unbind function was called.
C5_OnChangeReadyCalls ==
    \A i \in DOMAIN listeners :
        listeners[i].invoked =
            (IF hist.regs[i].ready THEN 1 ELSE 0) + hist.regs[i].changes
C5_Witness ==
    \E i \in DOMAIN listeners :
        /\ ~listeners[i].bound
        /\ hist.regs[i].ready
        /\ listeners[i].invoked = 2
        /\ hist.regs[i].missed > 0

\* C6: without a usable descriptor list nothing derived is in the cache and
\* getDataNodes, getHashtagMap and getHashtagTransforms return the default;
\* with one they return the value built from it.
C6_NoBuildWithoutData ==
    /\ ~Usable => DOMAIN cache \cap Derived = {}
    /\ lastCall.op \in DerivedGetters =>
          IF Usable
          THEN ~lastCall.isDefault /\ Expected(lastCall.op, lastCall.value[1])
          ELSE lastCall.isDefault
C6_Witness ==
    /\ lastCall.op = "getHashtagMap"
    /\ lastCall.isDefault
    /\ "sources" \in DOMAIN cache
    /\ cache["sources"] = RootlessList

\* what getHashtagMap returns in this state when it starts no load
PeekHashtagMap ==
    IF "hashtagMap" \in DOMAIN cache THEN <<cache["hashtagMap"]>>
    ELSE IF Usable THEN <<FreshHashtags.map>>
    ELSE << >>

\* C7 (as claimed): once a hashtag map has been returned, getHashtagMap
\* still returns it after a later fetch has failed.
C7_FailedFetchKeepsBundle ==
    (hist.last = "error" /\ hist.bundle # << >>) => PeekHashtagMap = hist.bundle

\* C8: every derived value in the cache, and every value a getter returns,
\* is the complete value compiled from the list now in the cache.
C8_WholeBundle ==
    /\ DOMAIN cache \cap Derived # {} => Usable
    /\ "dataNodes" \in DOMAIN cache => Expected("getDataNodes", cache["dataNodes"])
    /\ "hashtags" \in DOMAIN cache =>
          /\ cache["hashtags"].map = FreshHashtags.map
          /\ cache["hashtags"].transforms = FreshHashtags.transforms
    /\ "hashtagMap" \in DOMAIN cache => cache["hashtagMap"] = FreshHashtags.map
    /\ "hashtagTransforms" \in DOMAIN cache =>
          cache["hashtagTransforms"] = FreshHashtags.transforms
    /\ (lastCall.op \in DerivedGetters /\ ~lastCall.isDefault) =>
          Usable /\ Expected(lastCall.op, lastCall.value[1])
C8_Witness ==
    /\ hist.changes >= 2
    /\ hist.bundle # << >>
    /\ lastCall.op = "getHashtagTransforms"
    /\ ~lastCall.isDefault
    /\ "hashtagMap" \notin DOMAIN cache
    /\ <<FreshHashtags.map>> # hist.bundle

\* the URL endpoint has failed so far and reset() was not called
KeepsFailing ==
    endpoint = "url" /\ hist.resets = 0 /\ hist.changes = 0
Backoff == <<1000, 2000, 4000, 8000>>
Min(a, b) == IF a < b THEN a ELSE b

\* C24: while the URL endpoint keeps failing and reset() is not called,
\* every failed request has fired one error event, the first four failures
\* have scheduled retries after 1000, 2000, 4000 and 8000 and the fifth has
\* scheduled none, every request but the first was issued by a retry, at
\* most five requests are issued, and after the fifth failure nothing is
\* pending while loading is still true.
C24_RetryBackoff ==
    KeepsFailing =>
        /\ hist.errors = hist.requests - ajax
        /\ hist.delays = SubSeq(Backoff, 1, Min(hist.errors, 4))
        /\ hist.requests = 1 + Len(hist.delays) - timers
        /\ hist.requests <= 5
        /\ loading
        /\ hist.errors = 5 => ajax = 0 /\ timers = 0
C24_Witness ==
    /\ KeepsFailing
    /\ hist.errors = 5 /\ hist.requests = 5
    /\ hist.delays = Backoff
    /\ retryTimeout = 16000
    /\ lastCall.op = "isReady" /\ lastCall.isDefault
    /\ ajax = 0 /\ timers = 0 /\ loading

\* C30 (as claimed): at most one request, retry timer or endpoint call is
\* outstanding, and no isReady(), getter or onChangeReady call has issued a
\* request or called the endpoint while one was.
C30_OneLoadInFlight ==
    /\ ajax + timers + fnPending <= 1
    /\ ~hist.overlap

(***************************************************************************)
(* Properties of the callback-queue loader (QueueSpec)                     *)
(***************************************************************************)
\* the invocations of a callback of the n-th getDataSources call
Invocations(n, kind) ==
    {k \in DOMAIN qLog : qLog[k].caller = n /\ qLog[k].kind = kind}
\* the getDataSources calls since the last reset()
CurrentCallers == {n \in DOMAIN callers : callers[n].epoch = qHist.resets}
\* the invocations of success callbacks that had been queued
Flushed == {k \in DOMAIN qLog : qLog[k].kind = "success" /\ ~qLog[k].sync}

\* C14 (as claimed): since the last reset() at most one request has been
\* issued; a success callback passed while no data was cached is waiting in
\* the queue or has been invoked exactly once, when the request issued since
\* that reset() finished, with the data the other queued callbacks got; a
\* success callback passed after that was invoked at once with the cached
\* data.
C14_OneRequestPerReset ==
    /\ qHist.issued <= 1
    /\ \A n \in DOMAIN callers : callers[n].success =>
          /\ Cardinality(Invocations(n, "success")) <= 1
          /\ (n \in CurrentCallers /\ callers[n].cached = << >>) =>
                (Invocations(n, "success") = {}) = (n \in Range(dataCallbacks))
          /\ callers[n].cached # << >> =>
                \E k \in Invocations(n, "success") :
                    qLog[k].sync /\ qLog[k].args = callers[n].cached[1]
    /\ \A k \in Flushed :
          /\ callers[qLog[k].caller].cached = << >>
          /\ qLog[k].by = callers[qLog[k].caller].epoch
          /\ \A j \in Flushed :
                callers[qLog[j].caller].epoch = callers[qLog[k].caller].epoch
                    => qLog[j].args = qLog[k].args

\* the failed requests that were unfinished when the n-th call was made
FailuresSince(n) ==
    {f \in DOMAIN qHist.failures :
        qHist.failures[f].first <= n /\ n <= qHist.failures[f].upto}

\* C15 (as claimed): an error callback that was queued has been invoked once
\* for every failed request that was unfinished when it was queued, with
\* jQuery's three arguments, and not otherwise.
C15_ErrorCallbacks ==
    /\ \A n \in DOMAIN callers :
          (callers[n].error /\ callers[n].cached = << >>) =>
              Cardinality(Invocations(n, "error")) = Cardinality(FailuresSince(n))
    /\ \A k \in DOMAIN qLog : qLog[k].kind = "error" => qLog[k].args = XhrArgs

(***************************************************************************)
(* Properties of transform (TransformSpec)                                 *)
\* the callbacks of a queue that were passed
Compact(callbacks) == {callbacks[k] : k \in DOMAIN callbacks} \ {NoCallback}
\* the invocations the handler of the failure f made
Handled(f, kind) ==
    {k \in DOMAIN qLog : /\ k > f.log
                         /\ k <= f.log + Cardinality(Compact(f.queued))
                                      + Cardinality(Compact(f.errors))
                         /\ qLog[k].kind = kind}

\* C28 (as claimed): when a request has failed, every success callback that
\* was queued has been invoked with the placeholder, before any error
\* callback that was queued; until reset() is called the placeholder is in
\* dataCache, no further request is issued, and every later getDataSources
\* call with a success callback has been answered at once with the
\* placeholder.
C28_FailureCached ==
    \A n \in DOMAIN qHist.failures :
        Let(qHist.failures[n],
            LAMBDA f :
                /\ {qLog[k].caller : k \in Handled(f, "success")} = Compact(f.queued)
                /\ {qLog[k].caller : k \in Handled(f, "error")} = Compact(f.errors)
                /\ \A k \in Handled(f, "success") :
                      /\ qLog[k].args = <<NotFound>>
                      /\ \A j \in Handled(f, "error") : k < j
                /\ f.resets = qHist.resets =>
                      /\ dataCache = <<(<<NotFound>>)>>
                      /\ qHist.issued = f.issued
                      /\ \A c \in DOMAIN callers :
                            (c > f.upto /\ callers[c].success) =>
                                \E k \in Invocations(c, "success") :
                                    qLog[k].sync /\ qLog[k].args = <<NotFound>>)

(***************************************************************************)
(* Properties of both loaders (LoadersSpec)                                *)
(***************************************************************************)
\* the list a success callback of the callback-queue loader was handed
Delivered == {qLog[k].args : k \in {j \in DOMAIN qLog : qLog[j].kind = "success"}}

\* C27: the descriptor list in the cache of either loader is never empty,
\* and neither is a list that getDataSources returned or a success callback
\* was handed; once a load has finished, and until reset() is called, the
\* sources are in the cache and isReady() is true.
C27_NeverEmpty ==
    /\ "sources" \in DOMAIN cache => Len(cache["sources"]) > 0
    /\ (lastCall.op = "getDataSources" /\ ~lastCall.isDefault) =>
            Len(lastCall.value[1]) > 0
    /\ hist.changes > 0 => "sources" \in DOMAIN cache
    /\ (hist.changes > 0 /\ lastCall.op = "isReady") => ~lastCall.isDefault
    /\ dataCache # << >> => Len(dataCache[1]) > 0
    /\ \A list \in Delivered : Len(list) > 0

\* a request of the callback-queue loader failed and a queued success
\* callback was handed the placeholder, which is in the cache
C27_Witness ==
    /\ qHist.failures # << >>
    /\ dataCache = <<(<<NotFound>>)>>
    /\ \E k \in DOMAIN qLog :
          qLog[k].kind = "success" /\ ~qLog[k].sync /\ qLog[k].args = <<NotFound>>

(***************************************************************************)
\* the positions of the backticks of the input
Backticks == {i \in DOMAIN xInput : xInput[i] = Delimiter}
\* the n-th of them
Backtick(n) == CHOOSE i \in Backticks : Cardinality({j \in Backticks : j < i}) = n - 1
\* the backticks pair up from the left: the k-th pair opens and closes here
Pairs == 1..(Cardinality(Backticks) \div 2)
Open(k) == Backtick(2 * k - 1)
Close(k) == Backtick(2 * k)
IsSpan(k) == Close(k) > Open(k) + 1
Content(k) == SubSeq(xInput, Open(k) + 1, Close(k) - 1)
Prefix(i) == SubSeq(xInput, 1, i)
Suffix(i) == SubSeq(xInput, i, Len(xInput))
Follows(k, symbol) == Close(k) < Len(xInput) /\ xInput[Close(k) + 1] = symbol

\* C16: an input without a backtick is returned unchanged, whatever the map
\* function and whatever other symbols it has.
C16_NoBacktickUnchanged ==
    (Called /\ Backticks = {}) => Output = xInput
C16_Witness ==
    /\ Called
    /\ Backticks = {}
    /\ xFn = "transformToProperty"
    /\ Len(xInput) >= 3
    /\ {"U+1F360", "/"} \subseteq Range(xInput)
    /\ xInput[Len(xInput)] # "/"

\* C17 (as claimed): the result is the text before the first span, the map
\* function applied to the span's content, and the transform of the rest,
\* with nothing else.
C17_SpansReplaced ==
    (Called /\ Pairs # {} /\ IsSpan(1)) =>
        Output = Prefix(Open(1) - 1) \o ApplyFn(xFn, Content(1))
                    \o transform(Suffix(Close(1) + 1), xFn)

\* C17 (amended): the result is the text before the first span, the map
\* function applied to the span's content, one space if a "-" follows the
\* span, and the transform of the rest; so every span is replaced on its
\* own, in order, and the text outside the spans is kept.
C17_SpansReplacedSpaced ==
    (Called /\ Pairs # {} /\ IsSpan(1)) =>
        Output = Prefix(Open(1) - 1) \o ApplyFn(xFn, Content(1))
                    \o (IF Follows(1, "-") THEN <<" ">> ELSE << >>)
                    \o transform(Suffix(Close(1) + 1), xFn)
C17_Witness ==
    /\ Called
    /\ xFn = "transformToProperty"
    /\ Cardinality(Pairs) >= 2
    /\ IsSpan(1) /\ IsSpan(2)
    /\ Open(2) = Close(1) + 1
    /\ ApplyFn(xFn, Content(1)) \o ApplyFn(xFn, Content(2))
          # ApplyFn(xFn, Content(1) \o Content(2))
    /\ Output = Prefix(Open(1) - 1) \o ApplyFn(xFn, Content(1))
                    \o ApplyFn(xFn, Content(2))
                    \o transform(Suffix(Close(2) + 1), xFn)

\* the unmatched backtick of an input with an odd number of backticks
Unmatched == Backtick(Cardinality(Backticks))

\* C18: with an odd number of backticks the result is the transform of the
\* text before the last backtick followed by the rest of the input as it
\* is, backtick included.
C18_UnterminatedLiteral ==
    (Called /\ Cardinality(Backticks) % 2 = 1) =>
        Output = transform(Prefix(Unmatched - 1), xFn) \o Suffix(Unmatched)
C18_Witness ==
    /\ Called
    /\ xFn = "transformToProperty"
    /\ Cardinality(Backticks) = 3
    /\ IsSpan(1)
    /\ ApplyFn(xFn, Content(1)) # Content(1)
    /\ ApplyFn(xFn, Suffix(Unmatched + 1)) # Suffix(Unmatched + 1)
    /\ Output = Prefix(Open(1) - 1) \o ApplyFn(xFn, Content(1))
                    \o SubSeq(xInput, Close(1) + 1, Len(xInput))

\* C19: a pair that opens and closes at once gives exactly one backtick
\* between the transform of the text before it and that of the text after.
C19_EmptyPairIsBacktick ==
    Called => \A k \in Pairs :
        ~IsSpan(k) =>
            Output = transform(Prefix(Open(k) - 1), xFn) \o <<Delimiter>>
                        \o transform(Suffix(Close(k) + 1), xFn)
C19_Witness ==
    /\ Called
    /\ xFn = "transformToProperty"
    /\ \E k \in Pairs :
          /\ k > 1
          /\ ~IsSpan(k)
          /\ IsSpan(k - 1)
          /\ Open(k) = Close(k - 1) + 1
          /\ ApplyFn(xFn, Content(k - 1)) # Content(k - 1)

\* C20: one space goes between a span and a "-" right after it; nothing is
\* put after a span that a blank, a ")", a backtick or the end of the input
\* follows; and the default transform of an input whose backticks all
\* delimit spans, none followed by "-", is the input without its backticks.
C20_SpaceBeforeSuffix ==
    Called =>
        /\ \A k \in Pairs : IsSpan(k) =>
              /\ Follows(k, "-") =>
                    Output = transform(Prefix(Close(k)), xFn) \o <<" ">>
                                \o transform(Suffix(Close(k) + 1), xFn)
              /\ (\/ Close(k) = Len(xInput)
                  \/ \E symbol \in {" ", ")", Delimiter} : Follows(k, symbol)) =>
                    Output = transform(Prefix(Close(k)), xFn)
                                \o transform(Suffix(Close(k) + 1), xFn)
        /\ (/\ xFn = "identity"
            /\ Cardinality(Backticks) % 2 = 0
            /\ \A k \in Pairs : IsSpan(k) /\ ~Follows(k, "-")) =>
              Output = SelectSeq(xInput, LAMBDA symbol : symbol # Delimiter)
C20_Witness ==
    /\ Called
    /\ xFn = "transformToProperty"
    /\ Pairs = {1}
    /\ IsSpan(1)
    /\ Follows(1, "-")
    /\ ApplyFn(xFn, Content(1)) # Content(1)
    /\ Output = ApplyFn(xFn, Content(1)) \o <<" ", "-">>

\* the second call, once made
Again == xAgain # << >>
\* every backtick of the input has its partner
Balanced == Cardinality(Backticks) % 2 = 0
\* g leaves what f made of every span as it is
Fixes(g, f) ==
    \A k \in Pairs :
        IsSpan(k) => ApplyFn(g, ApplyFn(f, Content(k))) = ApplyFn(f, Content(k))

Parsed(method) == pCall # << >> /\ pCall[1].method = method
Canonical(h) == <<Delimiter, h, Delimiter>>

\* C22: toEscapedHashtag gives the canonical form of a known hashtag for
\* the bare hashtag, for the bare path it maps to and for the hashtag
\* between backticks; applied to the string it returned, it returns that
\* string again.
C22_CanonicalHashtag ==
    Parsed("toEscapedHashtag") =>
        /\ \A h \in DOMAIN hashtagMap :
                pInput \in {<<h>>, <<hashtagMap[h]>>, Canonical(h)}
                    => pCall[1].output = Canonical(h)
        /\ pAgain # << >> =>
                pAgain[1].parses /\ pAgain[1].output = pCall[1].output
C22_Witness ==
    /\ Parsed("toEscapedHashtag")
    /\ pInput = <<"/data/text1">>
    /\ pCall[1].output = Canonical("#form/text1")
    /\ pAgain # << >>
    /\ pAgain[1].output = Canonical("#form/text1")

\* the positions of the input that hold neither a blank nor a backtick,
\* and the n-th of them
Kept == {q \in DOMAIN pInput : pInput[q] \notin {" ", Delimiter}}
KeptAt(n) == CHOOSE q \in Kept : Cardinality({r \in Kept : r < q}) = n - 1
\* position q lies between an opening backtick and its closing one
Delimited(q) ==
    Cardinality({r \in 1..(q - 1) : pInput[r] = Delimiter}) % 2 = 1
NotBlank(symbol) == symbol # " "
Resolved(symbol) ==
    IF symbol \in DOMAIN hashtagMap THEN hashtagMap[symbol] ELSE symbol
SpanContents == {pInput[q] : q \in {r \in Kept : Delimited(r)}}

\* C23: in the result of toXPath, blanks apart, every span of the input is
\* its path if it is a key of hashtagMap and its own content if it is not,
\* and no backtick is left.
C23_UnknownPassThrough ==
    Parsed("toXPath") =>
        /\ \A k \in DOMAIN pCall[1].output : pCall[1].output[k] # Delimiter
        /\ Len(SelectSeq(pCall[1].output, NotBlank)) = Cardinality(Kept)
        /\ \A n \in 1..Cardinality(Kept) :
                Delimited(KeptAt(n)) =>
                    SelectSeq(pCall[1].output, NotBlank)[n] = Resolved(pInput[KeptAt(n)])
C23_Witness ==
    /\ Parsed("toXPath")
    /\ SpanContents = {"#form/text1", "#form/text3"}
    /\ pCall[1].output = <<"/data/text1", " ", "-", " ", "#form/text3">>

(***************************************************************************)
(* Properties of the intents plugin (IntentSpec)                           *)
(***************************************************************************)
\* the elements written that satisfy Test
Written(Test(_)) == {k \in DOMAIN iHist.written : Test(iHist.written[k])}
FromTag(id) == Written(LAMBDA element : element.from = "tag" /\ element.id = id)
FromMug(i) == Written(LAMBDA element : element.from = "mug" /\ element.at = i)
WithId(id) == Written(LAMBDA element : element.id = id)
IntentMugs == {i \in DOMAIN iTree : iTree[i].className = "AndroidIntent"}

AsCalls(stack) ==
    [k \in DOMAIN stack |->
        [mug |-> stack[k][1], sibling |-> stack[k][2], position |-> stack[k][3]]]

\* C29: undoStack holds the entries passed since the last resetUndo or
\* undo, in call order; undo() has re-inserted every entry of the stack it
\* found once and in that order, left the stack empty and fired 'reset'
\* once; resetUndo fires 'reset' once and appendMug never.
C29_UndoStack ==
    /\ undoStack = uHist.passed
    /\ uHist.last = "undo" =>
          /\ uHist.inserted = AsCalls(uHist.undone)
          /\ undoStack = << >>
          /\ uHist.fired = 1
    /\ uHist.last = "resetUndo" => uHist.fired = 1 /\ uHist.inserted = << >>
    /\ uHist.last = "appendMug" => uHist.fired = 0 /\ uHist.inserted = << >>

\* undo() found a stack that resetUndo(mug) had started and appendMug had
\* added another mug to
C29_Witness ==
    /\ uHist.last = "undo"
    /\ Len(uHist.undone) = 2
    /\ uHist.undone[1][1] # uHist.undone[2][1]
    /\ Len(uHist.inserted) = 2
====
